---- MODULE Spec2Model ----
(***************************************************************************)
(* Dispatch: the per-project processing state machine (processProject),    *)
(* its review loop (reviewLoop), the cycle scheduler (dispatchCycle) and   *)
(* the human-reply router (registerGregHandler), over the project store    *)
(* (project/state.js) and the messaging channel (messaging/slack.js).      *)
(*                                                                         *)
(* Node runs one flow at a time and switches flows only at an await: an    *)
(* action below is the code one flow runs from one await to the next.      *)
(* The agents (Decision, Execution, Review) and the clock are inputs: an   *)
(* action that consumes a result draws it with \E from the values the     *)
(* interface allows.                                                       *)
(***************************************************************************)
EXTENDS Integers, Sequences, FiniteSets, TLC

\* ---- bounds of the model ------------------------------------------------
NumProjects == 2        \* slots of the project store (project ids 1..NumProjects)
MaxTicks == 1           \* timer ticks that start a pass body
MaxMsgs == 1            \* human messages received
MaxTasks == 2           \* tasks whose execution produces a commit (Spec)
MaxRevisions == 1       \* revisions of one task that produce a commit (Spec)
SessionTasks == 3       \* tasks whose execution produces a commit (SpecSession)
SessionRevisions == 1   \* revisions of one task that produce a commit (SpecSession)
ReviewTasks == 2        \* tasks whose execution produces a commit (SpecReview)
SessionIterations == 3  \* the largest maxIterations of a session (SpecSession)
RaceMsgs == 2           \* human messages received (SpecRace)

\* ---- program constants --------------------------------------------------
SAFETY_CAP == 6

\* for (let attempt = 1; attempt <= 3; attempt++), in every wrapper that retries
MaxAttempts == 3

Projects == 1 .. NumProjects
Timers == {"timer"}
\* One invocation of the router's handler per human message.
HandlerNames == <<"h1", "h2", "h3">>
Handlers == {HandlerNames[n] : n \in 1 .. RaceMsgs}
\* The admin server is a process of its own; it serves one request here.
Admins == {"admin"}
Ctx == Timers \cup Handlers \cup Admins

NullDir == [text |-> 0, note |-> FALSE]

\* The strings a record must carry, as the two classes validation tells apart:
\* "" is a missing, empty or non-string value, "set" a non-empty string.
Strings == {"", "set"}

\* lastActivity is a reading of the clock; 0 is the oldest. The template as its
\* callers fill it: the admin server and onboard() pass projectId and repoPath,
\* and onboard() passes the name the Goal Parser gave.
createProjectTemplate(tb, mi) ==
    [projectId |-> "set", name |-> "set", repoPath |-> "set",
     status |-> "active", inProgress |-> FALSE, gregDirection |-> NullDir,
     completed |-> << >>, timeBudget |-> tb, maxIterations |-> mi, lastActivity |-> 0]

Absent == [createProjectTemplate(0, 1) EXCEPT !.status = "absent"]

Statuses == {"active", "paused", "completed", "waiting_input"}

\* Array.isArray: the value is indexed by 1 .. n.
isArray(x) == DOMAIN x = 1 .. Cardinality(DOMAIN x)

\* validateProjectState(state).length = 0
validateProjectState(state) ==
    /\ state.projectId # ""
    /\ state.name # ""
    /\ state.repoPath # ""
    /\ state.status \in Statuses
    /\ isArray(state.completed)

Decisions ==
    [needsGreg : BOOLEAN, confidence : {"high", "medium", "low"}, isPrerequisite : BOOLEAN]

NoDecision == [needsGreg |-> FALSE, confidence |-> "none", isPrerequisite |-> FALSE]

ExecutionResults ==
    [status : {"completed", "needs_input", "failed"}, commit : BOOLEAN]

Reviews == {"approve", "revise", "ask_greg"}

\* A default review that hands the task to the human instead.
reviewDefaultEscalates == "ask_greg"

\* The review reviewWork returns when every attempt has failed.
reviewDefault == "approve"

\* What inspectResult can find after the execution agent has run: a new commit,
\* uncommitted changes, nothing changed, or a repository git cannot read.
RepoStates == {"commit", "dirty", "clean", "unreadable"}

inspectResult(r) ==
    IF r = "commit" THEN [status |-> "completed", commit |-> TRUE, issue |-> "none"]
    ELSE IF r = "dirty" THEN [status |-> "needs_input", commit |-> FALSE, issue |-> "uncommitted"]
    ELSE IF r = "clean" THEN [status |-> "failed", commit |-> FALSE, issue |-> "no_changes"]
    ELSE [status |-> "failed", commit |-> FALSE, issue |-> "inspect"]

\* executeTask returning the inspection's result as it is.
executeTaskKeepsFailure(r) ==
    [status |-> inspectResult(r).status, commit |-> inspectResult(r).commit]

\* executeTask's return once runClaude has resolved: the inspection's result,
\* with "ran but produced no changes" turned into a request for input.
executeTask(r) ==
    LET result == inspectResult(r) IN
    IF result.status = "failed" /\ result.issue = "no_changes"
    THEN [status |-> "needs_input", commit |-> FALSE]
    ELSE [status |-> result.status, commit |-> result.commit]

\* executeRevision's return once runClaude has resolved: the inspection's result.
executeRevision(r) ==
    [status |-> inspectResult(r).status, commit |-> inspectResult(r).commit]

\* Step 5 of processProject: the branch taken on an execution result.
outcome(e) ==
    IF e.status = "completed" /\ e.commit THEN "review"
    ELSE IF e.status = "completed" THEN "ask"
    ELSE IF e.status = "needs_input" THEN "ask"
    ELSE "failed"

\* The locals of one flow: dispatchCycle's, processProject's and reviewLoop's.
\* projects, idx: dispatchCycle's list and loop index; ids, scan, acc: the
\* directory listing being read; pid, st: the project in hand and its record in
\* memory; it, nBr, rem: currentIteration, iterationBranches.length and the
\* class of timeRemaining() (2: above a minute, 1: a minute, 0: below); it0:
\* currentIteration as the loop head found it;
\* dec, rev, cur: the Decision, revisionCount, currentExecution.commitHash;
\* text: the human's message; seen: the human direction in the state handed to
\* the last Decision request; fails: the failed attempts of the agent call in
\* hand (back to 0 once an attempt succeeds); repo: what the last inspectResult
\* found. The n* fields count what the current
\* processProject call has done so far (nReview, nRevision: what the current
\* reviewLoop call has done; nGit: entries into the branching block; nPre:
\* approved prerequisite tasks), last is how the call ended, why is the reviewLoop
\* exit taken, reviewed the commit last shown to the Review Agent, errs the
\* projects reported by the per-project catch.
Blank ==
    [projects |-> << >>, idx |-> 0, ids |-> << >>, scan |-> 1, acc |-> << >>,
     pid |-> 0, st |-> Absent, it |-> 0, it0 |-> 0, nBr |-> 0, rem |-> 2,
     dec |-> NoDecision, rev |-> 0, cur |-> 0, reviewed |-> 0, text |-> 0, seen |-> 0,
     fails |-> 0, repo |-> "none",
     nDec |-> 0, nExec |-> 0, nReview |-> 0, nRevision |-> 0, nAsk |-> 0,
     nErr |-> 0, nPush |-> 0, nProgress |-> 0, nSummary |-> 0, nGit |-> 0, nPre |-> 0,
     last |-> "none", why |-> "none", errs |-> {}]

VARIABLES
    store,          \* project id -> the record persisted under it
    backup,         \* project id -> the copy saveProject kept of the record it replaced
    cycleRunning,   \* index.js: the in-flight guard
    pc,             \* flow -> where it stands
    loc,            \* flow -> its locals
    onGregReply,    \* slack.js: the flow whose waitForGreg callback is registered
    head,           \* the last commit id handed out
    nTick,          \* timer ticks that started a pass body so far
    nMsg,           \* human messages received so far
    nTask,          \* executions that produced a commit so far
    cap             \* the bounds of this behaviour: ticks, msgs, tasks, revs

vars == <<store, backup, cycleRunning, pc, loc, onGregReply, head, nTick, nMsg, nTask, cap>>

\* new Date(): the clock, read as a rank. It moves with every event of the
\* behaviour (a tick, a message, a commit) and is past every lastActivity the
\* store starts with.
now == 2 + nTick + nMsg + head

\* ---- the store ------------------------------------------------------------

loadProject(p) == store[p]

\* saveProject without its validation: every record is written.
saveProjectUnvalidated(p, state) == [store EXCEPT ![p] = state]

\* saveProject: refuses a record that fails validation, else overwrites.
saveProject(p, state) ==
    IF validateProjectState(state) THEN [store EXCEPT ![p] = state] ELSE store

\* saveProject's copyFile(file, backupPath) before the write: the stored record
\* becomes the backup; a first save has no file to copy, and a refused record
\* is thrown out before the copy.
copyFile(p, state) ==
    IF validateProjectState(state) /\ store[p].status # "absent"
    THEN [backup EXCEPT ![p] = store[p]]
    ELSE backup

\* readdir: the ids that have a file, in directory order.
RECURSIVE readdir(_)
readdir(p) ==
    IF p > NumProjects THEN << >>
    ELSE (IF store[p].status # "absent" THEN <<p>> ELSE << >>) \o readdir(p + 1)

\* loadActiveProjects / loadWaitingProjects: readdir, then one loadProject per
\* id, each after an await; an id is kept when its status is the one asked for.
startListing(l) == [l EXCEPT !.ids = readdir(1), !.scan = 1, !.acc = << >>]

listingStep(l, status) ==
    LET p == l.ids[l.scan] IN
    [l EXCEPT !.scan = @ + 1,
              !.acc = IF loadProject(p).status = status THEN Append(@, p) ELSE @]

listingDone(l) == l.scan > Len(l.ids)

\* ---- initial states -------------------------------------------------------

record(status, tb, mi) == [createProjectTemplate(tb, mi) EXCEPT !.status = status]

quiet(stores, bounds) ==
    /\ store \in stores
    /\ backup = [p \in Projects |-> Absent]
    /\ cap = bounds
    /\ cycleRunning = FALSE
    /\ pc = [c \in Ctx |-> "idle"]
    /\ loc = [c \in Ctx |-> Blank]
    /\ onGregReply = "none"
    /\ head = 0
    /\ nTick = 0
    /\ nMsg = 0
    /\ nTask = 0

\* A store of two projects; further slots are free.
two(r1, r2) == [p \in Projects |-> IF p = 1 THEN r1 ELSE IF p = 2 THEN r2 ELSE Absent]

\* The system at rest over a store of up to two projects made by the admin UI
\* (any status) or by onboarding.
InitStores ==
    { two(record("active", 0, 1), record("active", 0, 1)),
      two(record("waiting_input", 0, 1), record("paused", 0, 1)),
      two(record("completed", 0, 1), record("active", 0, 1)),
      two(record("paused", 0, 1), Absent),
      two(Absent, Absent) }

Init == quiet(InitStores, [ticks |-> MaxTicks, msgs |-> MaxMsgs, tasks |-> MaxTasks, revs |-> MaxRevisions])

\* One session: a single active project, any budget, no human message.
SessionStores ==
    { two(record("active", tb, mi), Absent) :
        tb \in {0, 2}, mi \in 1 .. SessionIterations }

InitSession ==
    quiet(SessionStores,
          [ticks |-> 1, msgs |-> 0, tasks |-> SessionTasks, revs |-> SessionRevisions])

\* One session with the review loop at its full depth.
InitReview ==
    quiet(SessionStores,
          [ticks |-> 1, msgs |-> 0, tasks |-> ReviewTasks, revs |-> SAFETY_CAP])

\* ---- dispatchCycle --------------------------------------------------------

Set(c, l, where) ==
    /\ loc' = [loc EXCEPT ![c] = l]
    /\ pc' = [pc EXCEPT ![c] = where]

\* dispatchCycle without the check of cycleRunning: every call starts a pass.
dispatchCycleUnguarded(c) ==
    /\ cycleRunning' = TRUE
    /\ Set(c, Blank, "dc_readdir")

\* The guard and its set, with no await between them: a call that finds a pass
\* in flight returns at once.
dispatchCycle(c) ==
    IF cycleRunning
    THEN /\ Set(c, [Blank EXCEPT !.last = "skipped"], "idle")
         /\ UNCHANGED cycleRunning
    ELSE /\ cycleRunning' = TRUE
         /\ Set(c, Blank, "dc_readdir")

\* cron's tick (and the daemon's first call at startup).
Tick(c) ==
    /\ c \in Timers
    /\ pc[c] = "idle"
    /\ cycleRunning \/ nTick < cap.ticks
    /\ nTick' = IF cycleRunning THEN nTick ELSE nTick + 1
    /\ dispatchCycle(c)
    /\ UNCHANGED <<store, backup, onGregReply, head, nMsg, nTask, cap>>

\* finally { cycleRunning = false }, and the return to the caller.
finish(c) ==
    /\ cycleRunning' = FALSE
    /\ Set(c, Blank, "idle")

\* After loadActiveProjects: the projects to process, or the look for waiting ones.
afterActive(c, l) ==
    IF Len(l.acc) > 0
    THEN Set(c, [l EXCEPT !.projects = l.acc, !.idx = 0], "dc_next")
    ELSE Set(c, l, "dc_readdir_w")

\* loadActiveProjects lists the directory, or rejects (mkdir or readdir fails)
\* and the pass reports the error.
DCReaddir(c) ==
    /\ pc[c] = "dc_readdir"
    /\ \/ LET l == startListing(loc[c]) IN
            IF listingDone(l) THEN afterActive(c, l) ELSE Set(c, l, "dc_load")
       \/ Set(c, [loc[c] EXCEPT !.nErr = @ + 1], "dc_load_failed")
    /\ UNCHANGED <<store, backup, cycleRunning, onGregReply, head, nTick, nMsg, nTask, cap>>

DCLoad(c) ==
    /\ pc[c] = "dc_load"
    /\ LET l == listingStep(loc[c], "active") IN
         IF listingDone(l) THEN afterActive(c, l) ELSE Set(c, l, "dc_load")
    /\ UNCHANGED <<store, backup, cycleRunning, onGregReply, head, nTick, nMsg, nTask, cap>>

\* The return after a failed load without the finally.
DCLoadFailedKeepsGuard(c) ==
    /\ pc[c] = "dc_load_failed"
    /\ Set(c, Blank, "idle")
    /\ UNCHANGED <<store, backup, cycleRunning, onGregReply, head, nTick, nMsg, nTask, cap>>

\* await reportError(err, { phase: 'load_projects' }); return
DCLoadFailed(c) ==
    /\ pc[c] = "dc_load_failed"
    /\ finish(c)
    /\ UNCHANGED <<store, backup, onGregReply, head, nTick, nMsg, nTask, cap>>

\* The look for waiting projects with onboarding whatever it finds.
afterWaitingOnboards(c, l) ==
    /\ Set(c, l, "ob_ask")
    /\ UNCHANGED cycleRunning

\* After loadWaitingProjects: nothing to do this cycle, or onboarding.
afterWaiting(c, l) ==
    IF Len(l.acc) > 0
    THEN finish(c)
    ELSE /\ Set(c, l, "ob_ask")
         /\ UNCHANGED cycleRunning

\* loadWaitingProjects lists the directory, or rejects: no catch is around it
\* and the exception leaves dispatchCycle through its finally.
DCReaddirW(c) ==
    /\ pc[c] = "dc_readdir_w"
    /\ \/ LET l == startListing(loc[c]) IN
            IF listingDone(l) THEN afterWaiting(c, l)
            ELSE Set(c, l, "dc_load_w") /\ UNCHANGED cycleRunning
       \/ finish(c)
    /\ UNCHANGED <<store, backup, onGregReply, head, nTick, nMsg, nTask, cap>>

DCLoadW(c) ==
    /\ pc[c] = "dc_load_w"
    /\ LET l == listingStep(loc[c], "waiting_input") IN
         IF listingDone(l) THEN afterWaiting(c, l)
         ELSE Set(c, l, "dc_load_w") /\ UNCHANGED cycleRunning
    /\ UNCHANGED <<store, backup, onGregReply, head, nTick, nMsg, nTask, cap>>

\* The for loop over the projects: the next processProject call, or the end of
\* the pass. The counters of the call that just ended are dropped here.
fresh(l) == [Blank EXCEPT !.projects = l.projects, !.idx = l.idx, !.errs = l.errs]

DCNext(c) ==
    /\ pc[c] = "dc_next"
    /\ LET l == loc[c] IN
         IF l.idx < Len(l.projects)
         THEN /\ Set(c, [fresh(l) EXCEPT !.idx = l.idx + 1,
                                         !.pid = l.projects[l.idx + 1]], "pp_load")
              /\ UNCHANGED cycleRunning
         ELSE finish(c)
    /\ UNCHANGED <<store, backup, onGregReply, head, nTick, nMsg, nTask, cap>>

\* A catch that gives up the pass: the error ends dispatchCycle.
DCCatchAborts(c) ==
    /\ pc[c] = "dc_catch"
    /\ finish(c)
    /\ UNCHANGED <<store, backup, onGregReply, head, nTick, nMsg, nTask, cap>>

\* catch (err) { await reportError(err, { projectId, phase: 'process_project' }) }
DCCatch(c) ==
    /\ pc[c] = "dc_catch"
    /\ LET l == loc[c] IN
         Set(c, [l EXCEPT !.nErr = @ + 1, !.errs = @ \cup {l.pid}, !.last = "threw"],
             "dc_next")
    /\ UNCHANGED <<store, backup, cycleRunning, onGregReply, head, nTick, nMsg, nTask, cap>>

\* ---- the agents' wrappers --------------------------------------------------

\* catch (err) { lastError = err; ... } : one more failed attempt.
failed(l) == [l EXCEPT !.fails = @ + 1]

\* The attempt in hand is the wrapper's last one.
lastAttempt(l) == l.fails + 1 >= MaxAttempts

\* ---- processProject -------------------------------------------------------

\* timeRemaining(): Infinity without a budget; else the budget less the time
\* gone, which only grows. The classes the clock may show now.
timeRemaining(l) == IF l.st.timeBudget > 0 THEN 0 .. l.rem ELSE {2}

maxIterations(state) == IF state.maxIterations = 0 THEN 1 ELSE state.maxIterations

\* The return of processProject to dispatchCycle's loop.
return(c, l, how) == Set(c, [l EXCEPT !.last = how], "dc_next")

\* Leaving the iteration loop: the session summary, then the return.
sessionEnd(c, l) ==
    return(c, [l EXCEPT !.nSummary = IF l.nBr > 1 THEN @ + 1 ELSE @], "done")

\* const state = await loadProject(projectId), the status checks, the budget
\* setup (read from the record, which the completed branch leaves as it is).
PPLoad(c) ==
    /\ pc[c] = "pp_load"
    /\ LET state == loadProject(loc[c].pid)
           l == [loc[c] EXCEPT !.st = state, !.it = 0, !.nBr = 0,
                               !.rem = IF state.timeBudget = 1 THEN 1 ELSE 2]
       IN  IF state.status = "waiting_input" THEN return(c, l, "skipped")
           ELSE IF state.status = "completed" THEN Set(c, l, "pp_completed")
           ELSE Set(c, l, "pp_iter")
    /\ UNCHANGED <<store, backup, cycleRunning, onGregReply, head, nTick, nMsg, nTask, cap>>

\* The loop head as while (true): the iteration counter is not compared with
\* maxIterations.
PPIterUnbounded(c) ==
    /\ pc[c] = "pp_iter"
    /\ LET l == loc[c] IN
         \E r \in timeRemaining(l) :
            LET l1 == [l EXCEPT !.it = @ + 1, !.it0 = l.it, !.rem = r, !.fails = 0] IN
            IF l.st.timeBudget > 0 /\ r < 1
            THEN sessionEnd(c, l1)
            ELSE Set(c, IF l1.it > 1 /\ l1.nBr > 0
                        THEN [l1 EXCEPT !.st.gregDirection.note = TRUE]
                        ELSE l1,
                     "pp_decide")
    /\ UNCHANGED <<store, backup, cycleRunning, onGregReply, head, nTick, nMsg, nTask, cap>>

\* while (currentIteration < maxIterations): the counter, the time check, and
\* the note for the Decision Agent on a later iteration.
PPIter(c) ==
    /\ pc[c] = "pp_iter"
    /\ LET l == loc[c] IN
         IF l.it < maxIterations(l.st)
         THEN \E r \in timeRemaining(l) :
                LET l1 == [l EXCEPT !.it = @ + 1, !.it0 = l.it, !.rem = r, !.fails = 0] IN
                IF l.st.timeBudget > 0 /\ r < 1
                THEN sessionEnd(c, l1)
                ELSE Set(c, IF l1.it > 1 /\ l1.nBr > 0
                            THEN [l1 EXCEPT !.st.gregDirection.note = TRUE]
                            ELSE l1,
                         "pp_decide")
         ELSE sessionEnd(c, l)
    /\ UNCHANGED <<store, backup, cycleRunning, onGregReply, head, nTick, nMsg, nTask, cap>>

\* Escalation on needsGreg alone: a low confidence is not looked at.
escalatesOnNeedsGreg(d) == d.needsGreg

\* decision.needsGreg || decision.confidence === 'low'
escalates(d) == d.needsGreg \/ d.confidence = "low"

\* Step 3 without its question to the human.
routeUnasked(c, l) ==
    IF escalates(l.dec)
    THEN Set(c, l, "pp_esc_save")
    ELSE Set(c, [l EXCEPT !.st.inProgress = TRUE], "pp_mark_save")

\* Step 3 and the start of step 4: ask the human, or mark the task in progress.
route(c, l) ==
    IF escalates(l.dec)
    THEN Set(c, [l EXCEPT !.nAsk = @ + 1], "pp_esc_save")
    ELSE Set(c, [l EXCEPT !.st.inProgress = TRUE], "pp_mark_save")

\* proposeNextStep's caller without the clearing of the direction: the record
\* goes on to step 3 with the direction still in it.
PPDecideKeepsDirection(c) ==
    /\ pc[c] = "pp_decide"
    /\ LET l == loc[c] IN
         \/ \E d \in Decisions :
              route(c, [l EXCEPT !.dec = d, !.nDec = @ + 1, !.fails = 0,
                                 !.seen = l.st.gregDirection.text])
         \/ IF lastAttempt(l)
            THEN Set(c, [failed(l) EXCEPT !.nDec = @ + 1], "dc_catch")
            ELSE Set(c, failed(l), "pp_decide")
    /\ UNCHANGED <<store, backup, cycleRunning, onGregReply, head, nTick, nMsg, nTask, cap>>

\* One attempt of proposeNextStep: it returns a Decision, or fails (the API
\* call, the parse or validateDecision) and is tried again, or was the last and
\* proposeNextStep throws; the pending direction is cleared in memory once the
\* agent has seen it.
PPDecide(c) ==
    /\ pc[c] = "pp_decide"
    /\ LET l == loc[c] IN
         \/ \E d \in Decisions :
              LET l1 == [l EXCEPT !.dec = d, !.nDec = @ + 1, !.fails = 0,
                                  !.seen = l.st.gregDirection.text] IN
              IF l.st.gregDirection # NullDir
              THEN Set(c, [l1 EXCEPT !.st.gregDirection = NullDir], "pp_dir_save")
              ELSE route(c, l1)
         \/ IF lastAttempt(l)
            THEN Set(c, [failed(l) EXCEPT !.nDec = @ + 1], "dc_catch")
            ELSE Set(c, failed(l), "pp_decide")
    /\ UNCHANGED <<store, backup, cycleRunning, onGregReply, head, nTick, nMsg, nTask, cap>>

\* await saveProject(state) after the direction was cleared.
PPDirSave(c) ==
    /\ pc[c] = "pp_dir_save"
    /\ store' = saveProject(loc[c].pid, loc[c].st)
    /\ backup' = copyFile(loc[c].pid, loc[c].st)
    /\ route(c, loc[c])
    /\ UNCHANGED <<cycleRunning, onGregReply, head, nTick, nMsg, nTask, cap>>

\* state.status = 'waiting_input'; await saveProject(state); return
PPEscSave(c) ==
    /\ pc[c] = "pp_esc_save"
    /\ LET l == [loc[c] EXCEPT !.st.status = "waiting_input"] IN
         /\ store' = saveProject(l.pid, l.st)
         /\ backup' = copyFile(l.pid, l.st)
         /\ return(c, l, "waiting")
    /\ UNCHANGED <<cycleRunning, onGregReply, head, nTick, nMsg, nTask, cap>>

\* await saveProject(state) with inProgress set.
PPMarkSave(c) ==
    /\ pc[c] = "pp_mark_save"
    /\ store' = saveProject(loc[c].pid, loc[c].st)
    /\ backup' = copyFile(loc[c].pid, loc[c].st)
    /\ Set(c, loc[c], "pp_exec")
    /\ UNCHANGED <<cycleRunning, onGregReply, head, nTick, nMsg, nTask, cap>>

\* One attempt of executeTask: runClaude resolves and executeTask returns what
\* the inspection found, on which step 5 branches; or runClaude rejects and is
\* tried again, or that was the last attempt and executeTask throws.
PPExec(c) ==
    /\ pc[c] = "pp_exec"
    /\ LET l == [loc[c] EXCEPT !.nExec = @ + 1] IN
         \/ \E r \in RepoStates :
              LET l1 == [l EXCEPT !.fails = 0, !.repo = r] IN
              IF outcome(executeTask(r)) = "review"
              THEN /\ nTask < cap.tasks
                   /\ nTask' = nTask + 1
                   /\ head' = head + 1
                   /\ Set(c, [l1 EXCEPT !.cur = head + 1, !.rev = 0,
                                         !.nReview = 0, !.nRevision = 0], "rl_review")
              ELSE /\ IF outcome(executeTask(r)) = "failed"
                      THEN Set(c, [l1 EXCEPT !.nErr = @ + 1], "pp_failed_save")
                      ELSE Set(c, [l1 EXCEPT !.nAsk = @ + 1], "pp_ask_save")
                   /\ UNCHANGED <<head, nTask>>
         \/ /\ IF lastAttempt(loc[c])
               THEN Set(c, failed(l), "dc_catch")
               ELSE Set(c, failed(loc[c]), "pp_exec")
            /\ UNCHANGED <<head, nTask>>
    /\ UNCHANGED <<store, backup, cycleRunning, onGregReply, nTick, nMsg, cap>>

\* The save after the question without the change of status.
PPAskSaveStaysActive(c) ==
    /\ pc[c] = "pp_ask_save"
    /\ LET l == [loc[c] EXCEPT !.st.inProgress = FALSE] IN
         /\ store' = saveProject(l.pid, l.st)
         /\ backup' = copyFile(l.pid, l.st)
         /\ return(c, l, "waiting")
    /\ UNCHANGED <<cycleRunning, onGregReply, head, nTick, nMsg, nTask, cap>>

\* state.status = 'waiting_input'; state.inProgress = null; save; return
\* (an execution without a commit, or one that needs input).
PPAskSave(c) ==
    /\ pc[c] = "pp_ask_save"
    /\ LET l == [loc[c] EXCEPT !.st.status = "waiting_input", !.st.inProgress = FALSE] IN
         /\ store' = saveProject(l.pid, l.st)
         /\ backup' = copyFile(l.pid, l.st)
         /\ return(c, l, "waiting")
    /\ UNCHANGED <<cycleRunning, onGregReply, head, nTick, nMsg, nTask, cap>>

\* The save after a failed execution with the loop going on.
PPFailedSaveGoesOn(c) ==
    /\ pc[c] = "pp_failed_save"
    /\ LET l == [loc[c] EXCEPT !.st.inProgress = FALSE] IN
         /\ store' = saveProject(l.pid, l.st)
         /\ backup' = copyFile(l.pid, l.st)
         /\ Set(c, l, "pp_iter")
    /\ UNCHANGED <<cycleRunning, onGregReply, head, nTick, nMsg, nTask, cap>>

\* state.inProgress = null; save; return (a failed execution).
PPFailedSave(c) ==
    /\ pc[c] = "pp_failed_save"
    /\ LET l == [loc[c] EXCEPT !.st.inProgress = FALSE] IN
         /\ store' = saveProject(l.pid, l.st)
         /\ backup' = copyFile(l.pid, l.st)
         /\ return(c, l, "failed")
    /\ UNCHANGED <<cycleRunning, onGregReply, head, nTick, nMsg, nTask, cap>>

\* The completed branch: sendMessage, then waitForGreg() registers its callback.
PPCompletedAsk(c) ==
    /\ pc[c] = "pp_completed"
    /\ onGregReply' = c
    /\ Set(c, loc[c], "pp_wait")
    /\ UNCHANGED <<store, backup, cycleRunning, head, nTick, nMsg, nTask, cap>>

\* waitForGreg's timer fires: the wait fails and processProject throws.
PPWaitTimeout(c) ==
    /\ pc[c] \in {"pp_wait", "pp_taken"}
    /\ onGregReply' = "none"
    /\ Set(c, loc[c], "dc_catch")
    /\ UNCHANGED <<store, backup, cycleRunning, head, nTick, nMsg, nTask, cap>>

\* One attempt of parseGoal: it returns the new goal (status = 'active',
\* gregDirection = null), or fails and is tried again, or parseGoal throws.
PPGoalParse(c) ==
    /\ pc[c] = "pp_goal_parse"
    /\ \/ Set(c, [loc[c] EXCEPT !.st.status = "active", !.st.gregDirection = NullDir,
                                 !.fails = 0],
               "pp_goal_save")
       \/ IF lastAttempt(loc[c])
          THEN Set(c, failed(loc[c]), "dc_catch")
          ELSE Set(c, failed(loc[c]), "pp_goal_parse")
    /\ UNCHANGED <<store, backup, cycleRunning, onGregReply, head, nTick, nMsg, nTask, cap>>

\* await saveProject(state) with the new goal; the session then starts.
PPGoalSave(c) ==
    /\ pc[c] = "pp_goal_save"
    /\ store' = saveProject(loc[c].pid, loc[c].st)
    /\ backup' = copyFile(loc[c].pid, loc[c].st)
    /\ Set(c, loc[c], "pp_iter")
    /\ UNCHANGED <<cycleRunning, onGregReply, head, nTick, nMsg, nTask, cap>>

\* ---- reviewLoop -----------------------------------------------------------

\* A TaskRecord that forgets the revisions: revisions is always 0.
taskEntryUnrevised(l) ==
    [commitHash |-> l.cur, revisions |-> 0,
     iteration |-> IF maxIterations(l.st) > 1 THEN l.it ELSE 0]

\* A TaskRecord that carries execution.commitHash, the first commit of the
\* task, and not currentExecution's.
taskEntryFirstCommit(l) ==
    [commitHash |-> l.cur - l.rev, revisions |-> l.rev,
     iteration |-> IF maxIterations(l.st) > 1 THEN l.it ELSE 0]

\* The TaskRecord of an approved task (iteration 0: not recorded).
taskEntry(l) ==
    [commitHash |-> l.cur, revisions |-> l.rev,
     iteration |-> IF maxIterations(l.st) > 1 THEN l.it ELSE 0]

\* The branching condition without the look at the clock.
branchesIgnoringTime(l, r) == maxIterations(l.st) > 1 /\ l.it < maxIterations(l.st)

\* The branching condition with <= for <: the last iteration is branched too.
branchesLastToo(l, r) == maxIterations(l.st) > 1 /\ l.it <= maxIterations(l.st) /\ r > 1

\* maxIterations > 1 && currentIteration < maxIterations && timeRemaining() > 60000
branches(l, r) == maxIterations(l.st) > 1 /\ l.it < maxIterations(l.st) /\ r > 1

\* The approved outcome with the prerequisite rule left out: a prerequisite
\* task is counted and branched like any other.
approvedCountsPrerequisite(c, l) ==
    \E r \in timeRemaining(l), gitOk \in BOOLEAN :
        LET l1 == [l EXCEPT !.rem = r,
                            !.st.completed = Append(@, taskEntry(l)),
                            !.st.inProgress = FALSE,
                            !.st.lastActivity = now,
                            !.nPush = @ + 1, !.nProgress = @ + 1,
                            !.nPre = IF l.dec.isPrerequisite THEN @ + 1 ELSE @] IN
        IF branches(l, r)
        THEN Set(c, [l1 EXCEPT !.nGit = @ + 1, !.nBr = IF gitOk THEN @ + 1 ELSE @],
                 "pp_task_save")
        ELSE Set(c, l1, "pp_task_save")

\* reviewLoop returned an approved outcome: the TaskRecord, the prerequisite
\* rule, the iteration branch (git may fail: the work then stays on main), the
\* push onto completed and the progress report; the save follows.
approved(c, l) ==
    \E r \in timeRemaining(l), gitOk \in BOOLEAN :
        LET l1 == [l EXCEPT !.rem = r,
                            !.st.completed = Append(@, taskEntry(l)),
                            !.st.inProgress = FALSE,
                            !.st.lastActivity = now,
                            !.nPush = @ + 1, !.nProgress = @ + 1] IN
        IF l.dec.isPrerequisite
        THEN Set(c, [l1 EXCEPT !.it = @ - 1, !.nPre = @ + 1], "pp_task_save")
        ELSE IF branches(l, r)
        THEN Set(c, [l1 EXCEPT !.nGit = @ + 1, !.nBr = IF gitOk THEN @ + 1 ELSE @],
                 "pp_task_save")
        ELSE Set(c, l1, "pp_task_save")

\* while (true): the loop of reviewLoop without its safety cap.
noCap(l) == TRUE

\* while (revisionCount < SAFETY_CAP)
underCap(l) == l.rev < SAFETY_CAP

\* The branch of reviewLoop on the review's decision.
verdict(c, l, v) ==
    IF v = "approve" THEN approved(c, l)
    ELSE IF v = "ask_greg"
    THEN Set(c, [l EXCEPT !.nAsk = @ + 1, !.why = "ask_greg"], "rl_wait_save")
    ELSE Set(c, [l EXCEPT !.rev = @ + 1], "rl_revise")

\* One attempt of reviewWork on the current commit: it returns a review, or
\* fails and is tried again, or was the last and reviewWork returns its default
\* review; reviewLoop branches on the decision.
RLReview(c) ==
    /\ pc[c] = "rl_review"
    /\ LET l == [loc[c] EXCEPT !.nReview = @ + 1, !.reviewed = loc[c].cur] IN
         \/ \E v \in Reviews : verdict(c, [l EXCEPT !.fails = 0], v)
         \/ IF lastAttempt(loc[c])
            THEN verdict(c, failed(l), reviewDefault)
            ELSE Set(c, failed(loc[c]), "rl_review")
    /\ UNCHANGED <<store, backup, cycleRunning, onGregReply, head, nTick, nMsg, nTask, cap>>

\* executeRevision, which makes one attempt: runClaude resolves and the
\* inspection's result is returned, or runClaude rejects and a failed result is
\* returned. A fresh commit loops (or hits the safety cap), anything else
\* escalates.
RLRevise(c) ==
    /\ pc[c] = "rl_revise"
    /\ LET l == [loc[c] EXCEPT !.nRevision = @ + 1] IN
         \/ \E r \in RepoStates :
              LET l1 == [l EXCEPT !.repo = r] IN
              IF executeRevision(r).status = "completed" /\ executeRevision(r).commit
              THEN /\ l.rev <= cap.revs
                   /\ head' = head + 1
                   /\ IF underCap(l)
                      THEN Set(c, [l1 EXCEPT !.cur = head + 1], "rl_review")
                      ELSE Set(c, [l1 EXCEPT !.cur = head + 1, !.nAsk = @ + 1,
                                            !.why = "cap"],
                               "rl_wait_save")
              ELSE /\ Set(c, [l1 EXCEPT !.nAsk = @ + 1, !.why = "revision_failed"],
                          "rl_wait_save")
                   /\ UNCHANGED head
         \/ /\ Set(c, [failed(l) EXCEPT !.nAsk = @ + 1, !.why = "revision_failed"],
                    "rl_wait_save")
            /\ UNCHANGED head
    /\ UNCHANGED <<store, backup, cycleRunning, onGregReply, nTick, nMsg, nTask, cap>>

\* The escalation's save without the reset of inProgress.
RLWaitSaveKeepsInProgress(c) ==
    /\ pc[c] = "rl_wait_save"
    /\ LET l == [loc[c] EXCEPT !.st.status = "waiting_input"] IN
         /\ store' = saveProject(l.pid, l.st)
         /\ backup' = copyFile(l.pid, l.st)
         /\ return(c, l, "waiting")
    /\ UNCHANGED <<cycleRunning, onGregReply, head, nTick, nMsg, nTask, cap>>

\* state.status = 'waiting_input'; state.inProgress = null; save; return 'waiting',
\* which processProject passes on.
RLWaitSave(c) ==
    /\ pc[c] = "rl_wait_save"
    /\ LET l == [loc[c] EXCEPT !.st.status = "waiting_input", !.st.inProgress = FALSE] IN
         /\ store' = saveProject(l.pid, l.st)
         /\ backup' = copyFile(l.pid, l.st)
         /\ return(c, l, "waiting")
    /\ UNCHANGED <<cycleRunning, onGregReply, head, nTick, nMsg, nTask, cap>>

\* The save after an approved task without the break of single-cycle mode.
PPTaskSaveLoops(c) ==
    /\ pc[c] = "pp_task_save"
    /\ store' = saveProject(loc[c].pid, loc[c].st)
    /\ backup' = copyFile(loc[c].pid, loc[c].st)
    /\ Set(c, loc[c], "pp_iter")
    /\ UNCHANGED <<cycleRunning, onGregReply, head, nTick, nMsg, nTask, cap>>

\* The save after an approved task with the single-cycle break skipped for a
\* prerequisite task.
PPTaskSaveGoesOnAfterPrerequisite(c) ==
    /\ pc[c] = "pp_task_save"
    /\ store' = saveProject(loc[c].pid, loc[c].st)
    /\ backup' = copyFile(loc[c].pid, loc[c].st)
    /\ IF loc[c].st.timeBudget = 0 /\ ~loc[c].dec.isPrerequisite
       THEN sessionEnd(c, loc[c])
       ELSE Set(c, loc[c], "pp_iter")
    /\ UNCHANGED <<cycleRunning, onGregReply, head, nTick, nMsg, nTask, cap>>

\* await saveProject(state) with the TaskRecord; without a time budget the
\* session ends after the first task, else the loop goes on.
PPTaskSave(c) ==
    /\ pc[c] = "pp_task_save"
    /\ store' = saveProject(loc[c].pid, loc[c].st)
    /\ backup' = copyFile(loc[c].pid, loc[c].st)
    /\ IF loc[c].st.timeBudget = 0
       THEN sessionEnd(c, loc[c])
       ELSE Set(c, loc[c], "pp_iter")
    /\ UNCHANGED <<cycleRunning, onGregReply, head, nTick, nMsg, nTask, cap>>

\* ---- onboarding -----------------------------------------------------------

\* await askGregForGoal(); waitForGreg() registers its callback.
OBAsk(c) ==
    /\ pc[c] = "ob_ask"
    /\ onGregReply' = c
    /\ Set(c, loc[c], "ob_wait")
    /\ UNCHANGED <<store, backup, cycleRunning, head, nTick, nMsg, nTask, cap>>

\* The timeout of onboarding's wait without onGregReply = null.
OBTimeoutKeepsSlot(c) ==
    /\ pc[c] \in {"ob_wait", "ob_taken"}
    /\ Set(c, [loc[c] EXCEPT !.nErr = @ + 1], "dc_abort")
    /\ UNCHANGED <<store, backup, cycleRunning, onGregReply, head, nTick, nMsg, nTask, cap>>

\* waitForGreg's timer fires: the slot is cleared and the wait fails; onboarding's
\* catch reports the error. The timer is armed until the callback is called, so
\* it can fire after a message took the callback: the later call resolves
\* nothing, and text is the message it was to hand over.
OBTimeout(c) ==
    /\ pc[c] \in {"ob_wait", "ob_taken"}
    /\ onGregReply' = "none"
    /\ Set(c, [loc[c] EXCEPT !.nErr = @ + 1], "dc_abort")
    /\ UNCHANGED <<store, backup, cycleRunning, head, nTick, nMsg, nTask, cap>>

\* One attempt of parseGoal: it returns a project definition, or fails and is
\* tried again, or parseGoal throws. The projectId is the
\* agent's choice: nothing compares it with the ids already stored, and
\* parseGoal asks only that it is truthy; the name may be missing.
OBParse(c) ==
    /\ pc[c] = "ob_parse"
    /\ \/ \E p \in Projects, projectId \in Strings, name \in Strings :
            Set(c, [loc[c] EXCEPT !.pid = p,
                                   !.st = [createProjectTemplate(0, 0) EXCEPT
                                             !.projectId = projectId,
                                             !.name = name,
                                             !.lastActivity = now]],
                "ob_save")
       \/ IF lastAttempt(loc[c])
          THEN Set(c, [failed(loc[c]) EXCEPT !.nErr = @ + 1], "dc_abort")
          ELSE Set(c, failed(loc[c]), "ob_parse")
    /\ UNCHANGED <<store, backup, cycleRunning, onGregReply, head, nTick, nMsg, nTask, cap>>

\* await saveProject(state); the new project is the pass's only project. A
\* record without a name is refused: saveProject throws, and the pass ends in
\* dispatchCycle's catch.
OBSave(c) ==
    /\ pc[c] = "ob_save"
    /\ store' = saveProject(loc[c].pid, loc[c].st)
    /\ backup' = copyFile(loc[c].pid, loc[c].st)
    /\ IF validateProjectState(loc[c].st)
       THEN Set(c, [loc[c] EXCEPT !.projects = <<loc[c].pid>>, !.idx = 0], "dc_next")
       ELSE Set(c, [loc[c] EXCEPT !.nErr = @ + 1], "dc_abort")
    /\ UNCHANGED <<cycleRunning, onGregReply, head, nTick, nMsg, nTask, cap>>

\* The pass ends after await reportError(err, { phase: 'onboarding' }).
DCAbort(c) ==
    /\ pc[c] = "dc_abort"
    /\ finish(c)
    /\ UNCHANGED <<store, backup, onGregReply, head, nTick, nMsg, nTask, cap>>

\* ---- the messaging channel and the human-reply router ---------------------

\* app.message taking the pending wait's callback without clearing the slot.
MessageKeepsSlot ==
    /\ nMsg < cap.msgs
    /\ nMsg' = nMsg + 1
    /\ IF onGregReply # "none"
       THEN Set(onGregReply, [loc[onGregReply] EXCEPT !.text = nMsg + 1],
                IF pc[onGregReply] = "ob_wait" THEN "ob_taken" ELSE "pp_taken")
       ELSE Set(HandlerNames[nMsg + 1], [Blank EXCEPT !.text = nMsg + 1], "h_readdir_w")
    /\ UNCHANGED <<store, backup, cycleRunning, onGregReply, head, nTick, nTask, cap>>

\* app.message: with a wait pending, its callback is taken and the slot cleared
\* (the wait goes on, its timer armed, while say('Got it, on it.') is awaited:
\* text holds the message the callback will be given); else the router's handler
\* runs.
Message ==
    /\ nMsg < cap.msgs
    /\ nMsg' = nMsg + 1
    /\ IF onGregReply # "none"
       THEN /\ onGregReply' = "none"
            /\ Set(onGregReply, [loc[onGregReply] EXCEPT !.text = nMsg + 1],
                   IF pc[onGregReply] = "ob_wait" THEN "ob_taken" ELSE "pp_taken")
       ELSE /\ Set(HandlerNames[nMsg + 1], [Blank EXCEPT !.text = nMsg + 1], "h_readdir_w")
            /\ UNCHANGED onGregReply
    /\ UNCHANGED <<store, backup, cycleRunning, head, nTick, nTask, cap>>

\* cb(message.text) after the await of say: clearTimeout and resolve, and the
\* flow that waited goes on with the reply.
Deliver(c) ==
    /\ pc[c] \in {"ob_taken", "pp_taken"}
    /\ Set(c, loc[c], IF pc[c] = "ob_taken" THEN "ob_parse" ELSE "pp_goal_parse")
    /\ UNCHANGED <<store, backup, cycleRunning, onGregReply, head, nTick, nMsg, nTask, cap>>

\* After loadWaitingProjects: resume waiting[0], or look for active projects.
afterWaitingH(c, l) ==
    IF Len(l.acc) > 0
    THEN Set(c, [l EXCEPT !.pid = l.acc[1]], "h_resume_load")
    ELSE Set(c, l, "h_readdir_a")

HReaddirW(c) ==
    /\ pc[c] = "h_readdir_w"
    /\ LET l == startListing(loc[c]) IN
         IF listingDone(l) THEN afterWaitingH(c, l) ELSE Set(c, l, "h_load_w")
    /\ UNCHANGED <<store, backup, cycleRunning, onGregReply, head, nTick, nMsg, nTask, cap>>

HLoadW(c) ==
    /\ pc[c] = "h_load_w"
    /\ LET l == listingStep(loc[c], "waiting_input") IN
         IF listingDone(l) THEN afterWaitingH(c, l) ELSE Set(c, l, "h_load_w")
    /\ UNCHANGED <<store, backup, cycleRunning, onGregReply, head, nTick, nMsg, nTask, cap>>

\* After loadActiveProjects: give active[0] the direction, or just start a pass.
afterActiveH(c, l) ==
    IF Len(l.acc) > 0
    THEN Set(c, [l EXCEPT !.pid = l.acc[1]], "h_dir_load")
    ELSE Set(c, l, "h_call")

HReaddirA(c) ==
    /\ pc[c] = "h_readdir_a"
    /\ LET l == startListing(loc[c]) IN
         IF listingDone(l) THEN afterActiveH(c, l) ELSE Set(c, l, "h_load_a")
    /\ UNCHANGED <<store, backup, cycleRunning, onGregReply, head, nTick, nMsg, nTask, cap>>

HLoadA(c) ==
    /\ pc[c] = "h_load_a"
    /\ LET l == listingStep(loc[c], "active") IN
         IF listingDone(l) THEN afterActiveH(c, l) ELSE Set(c, l, "h_load_a")
    /\ UNCHANGED <<store, backup, cycleRunning, onGregReply, head, nTick, nMsg, nTask, cap>>

\* resumeProject: load, status = 'active', gregDirection = the reply; then save.
resumeProject(state, text) ==
    [state EXCEPT !.status = "active", !.gregDirection = [text |-> text, note |-> FALSE],
                  !.lastActivity = now]

HResumeLoad(c) ==
    /\ pc[c] = "h_resume_load"
    /\ Set(c, [loc[c] EXCEPT !.st = resumeProject(loadProject(loc[c].pid), loc[c].text)],
           "h_resume_save")
    /\ UNCHANGED <<store, backup, cycleRunning, onGregReply, head, nTick, nMsg, nTask, cap>>

HResumeSave(c) ==
    /\ pc[c] = "h_resume_save"
    /\ store' = saveProject(loc[c].pid, loc[c].st)
    /\ backup' = copyFile(loc[c].pid, loc[c].st)
    /\ Set(c, loc[c], "h_call")
    /\ UNCHANGED <<cycleRunning, onGregReply, head, nTick, nMsg, nTask, cap>>

\* The direction for an active project: load, gregDirection = the reply; then save.
HDirLoad(c) ==
    /\ pc[c] = "h_dir_load"
    /\ Set(c, [loc[c] EXCEPT !.st = [loadProject(loc[c].pid) EXCEPT
                                       !.gregDirection = [text |-> loc[c].text, note |-> FALSE],
                                       !.lastActivity = now]],
           "h_dir_save")
    /\ UNCHANGED <<store, backup, cycleRunning, onGregReply, head, nTick, nMsg, nTask, cap>>

HDirSave(c) ==
    /\ pc[c] = "h_dir_save"
    /\ store' = saveProject(loc[c].pid, loc[c].st)
    /\ backup' = copyFile(loc[c].pid, loc[c].st)
    /\ Set(c, loc[c], "h_call")
    /\ UNCHANGED <<cycleRunning, onGregReply, head, nTick, nMsg, nTask, cap>>

\* await dispatchCycle()
HCall(c) ==
    /\ pc[c] = "h_call"
    /\ dispatchCycle(c)
    /\ UNCHANGED <<store, backup, onGregReply, head, nTick, nMsg, nTask, cap>>

\* ---- the admin server -----------------------------------------------------

\* PUT /api/projects/:id with a status: read the file and merge the update.
AdminRead(a) ==
    /\ a \in Admins
    /\ pc[a] = "idle"
    /\ \E p \in Projects, s \in Statuses :
          /\ store[p].status # "absent"
          /\ Set(a, [Blank EXCEPT !.pid = p, !.st = [loadProject(p) EXCEPT !.status = s]],
                 "a_write")
    /\ UNCHANGED <<store, backup, cycleRunning, onGregReply, head, nTick, nMsg, nTask, cap>>

\* ... validate, then writeFile.
AdminWrite(a) ==
    /\ pc[a] = "a_write"
    /\ store' = saveProject(loc[a].pid, loc[a].st)
    /\ UNCHANGED backup
    /\ Set(a, loc[a], "a_done")
    /\ UNCHANGED <<cycleRunning, onGregReply, head, nTick, nMsg, nTask, cap>>

\* ---- the system -----------------------------------------------------------

Cycle(c) ==
    \/ Tick(c) \/ DCReaddir(c) \/ DCLoadFailed(c) \/ DCLoad(c) \/ DCNext(c) \/ DCCatch(c)

Project(c) ==
    \/ PPLoad(c) \/ PPIter(c) \/ PPDecide(c) \/ PPDirSave(c) \/ PPEscSave(c)
    \/ PPMarkSave(c) \/ PPExec(c) \/ PPAskSave(c) \/ PPFailedSave(c)
    \/ RLReview(c) \/ RLRevise(c) \/ RLWaitSave(c) \/ PPTaskSave(c)

Onboarding(c) ==
    \/ DCReaddirW(c) \/ DCLoadW(c) \/ DCAbort(c)
    \/ OBAsk(c) \/ OBTimeout(c) \/ OBParse(c) \/ OBSave(c)

Router(c) ==
    \/ HReaddirW(c) \/ HLoadW(c) \/ HReaddirA(c) \/ HLoadA(c)
    \/ HResumeLoad(c) \/ HResumeSave(c) \/ HDirLoad(c) \/ HDirSave(c) \/ HCall(c)

Next ==
    \/ Message
    \/ \E c \in Ctx : Deliver(c) \/ Cycle(c) \/ Project(c) \/ Onboarding(c) \/ Router(c)

Spec == Init /\ [][Next]_vars

\* A pass over one project with nobody else about.
NextSession == \E c \in Timers : Cycle(c) \/ Project(c)

SpecSession == InitSession /\ [][NextSession]_vars

SpecReview == InitReview /\ [][NextSession]_vars

\* The core beside the admin server, which may set any status.
Completed(c) ==
    \/ PPCompletedAsk(c) \/ PPWaitTimeout(c) \/ PPGoalParse(c) \/ PPGoalSave(c)

Admin(a) == AdminRead(a) \/ AdminWrite(a)

NextAdmin ==
    \/ Message
    \/ \E c \in Ctx : Deliver(c) \/ Cycle(c) \/ Project(c) \/ Completed(c) \/ Onboarding(c) \/ Router(c)
                       \/ Admin(c)

InitAdmin ==
    quiet({two(record("active", 0, 1), Absent), two(record("completed", 0, 1), Absent),
           two(Absent, Absent)},
          [ticks |-> 1, msgs |-> 1, tasks |-> 1, revs |-> 1])

SpecAdmin == InitAdmin /\ [][NextAdmin]_vars

\* What a flow does by itself once started: every continuation that is ready
\* runs, and a wait for the human ends with the reply or with its timeout. The
\* timer's ticks, the human's messages and the admin's requests are not forced.
Steps(c) ==
    \/ DCReaddir(c) \/ DCLoadFailed(c) \/ DCLoad(c) \/ DCNext(c) \/ DCCatch(c)
    \/ Project(c) \/ Completed(c) \/ Onboarding(c) \/ Router(c) \/ AdminWrite(c)
    \/ Deliver(c)

SpecAdminFair == SpecAdmin /\ \A c \in Ctx : WF_vars(Steps(c))

\* The ways a pass can end: over one project that is active or waiting, or
\* over an empty store, with one tick and one human message.
InitGuard ==
    quiet({two(record("active", 0, 1), Absent), two(record("waiting_input", 0, 1), Absent),
           two(Absent, Absent)},
          [ticks |-> 1, msgs |-> 1, tasks |-> 1, revs |-> 1])

\* What a pass or a handler does by itself once started (Steps, without the
\* branches the admin server opens).
PassSteps(c) ==
    \/ DCReaddir(c) \/ DCLoadFailed(c) \/ DCLoad(c) \/ DCNext(c) \/ DCCatch(c)
    \/ Project(c) \/ Onboarding(c) \/ Router(c) \/ Deliver(c)

SpecGuardFair == InitGuard /\ [][Next]_vars /\ \A c \in Ctx : WF_vars(PassSteps(c))

\* One active project or none, one tick and two human messages, each handled
\* by its own invocation of the router's handler.
InitRace ==
    quiet({two(record("active", 0, 1), Absent), two(Absent, Absent)},
          [ticks |-> 1, msgs |-> RaceMsgs, tasks |-> 1, revs |-> 1])

SpecRace == InitRace /\ [][Next]_vars

\* Two projects of the same status whose last activity lies at either time:
\* the directory order of two projects says nothing about which was active last.
aged(r, t) == [r EXCEPT !.lastActivity = t]

RouterStores ==
    { two(aged(record(s, 0, 1), t1), aged(record(s, 0, 1), t2)) :
        s \in {"waiting_input", "active"}, t1 \in {0, 1}, t2 \in {0, 1} }

InitRouter ==
    quiet(RouterStores \cup {two(Absent, Absent)},
          [ticks |-> 1, msgs |-> 1, tasks |-> 1, revs |-> 1])

SpecRouter == InitRouter /\ [][Next]_vars

\* ---- saveProject on any record ---------------------------------------------

\* A value that is not an array: its index set is not 1 .. n.
NotArray == [i \in {0} |-> 0]

\* The records a caller may hand to saveProject: every class of each field
\* validation looks at.
Candidates ==
    { [createProjectTemplate(0, 1) EXCEPT !.projectId = projectId, !.name = name,
                                          !.repoPath = repoPath, !.status = status,
                                          !.completed = completed] :
        projectId \in Strings, name \in Strings, repoPath \in Strings,
        status \in Statuses \cup {"archived"}, completed \in {<< >>, NotArray} }

\* A caller about to call saveProject(state) for project 1, over a directory
\* with or without a file and a backup for it.
InitSave ==
    /\ store \in {two(record("paused", 0, 1), Absent), two(Absent, Absent)}
    /\ backup \in {two(record("active", 0, 1), Absent), two(Absent, Absent)}
    /\ cap = [ticks |-> 0, msgs |-> 0, tasks |-> 0, revs |-> 0]
    /\ cycleRunning = FALSE
    /\ \E state \in Candidates :
         /\ pc = [c \in Ctx |-> IF c = "timer" THEN "save_call" ELSE "idle"]
         /\ loc = [c \in Ctx |-> IF c = "timer" THEN [Blank EXCEPT !.pid = 1, !.st = state]
                                 ELSE Blank]
    /\ onGregReply = "none"
    /\ head = 0
    /\ nTick = 0
    /\ nMsg = 0
    /\ nTask = 0

\* await saveProject(state): it returns, or it throws.
SaveCall(c) ==
    /\ pc[c] = "save_call"
    /\ store' = saveProject(loc[c].pid, loc[c].st)
    /\ backup' = copyFile(loc[c].pid, loc[c].st)
    /\ Set(c, loc[c], IF validateProjectState(loc[c].st) THEN "save_done" ELSE "save_threw")
    /\ UNCHANGED <<cycleRunning, onGregReply, head, nTick, nMsg, nTask, cap>>

\* The core, and beside it saveProject called on any record.
SpecSave == (Init \/ InitSave) /\ [][Next \/ \E c \in Timers : SaveCall(c)]_vars

\* ---- properties -----------------------------------------------------------

\* Where a flow stands inside the body of dispatchCycle (after the guard, before
\* the finally), as opposed to idle, in the router's own code or in the admin server.
OutsidePcs ==
    {"h_readdir_w", "h_load_w", "h_readdir_a", "h_load_a",
     "h_resume_load", "h_resume_save", "h_dir_load", "h_dir_save", "h_call",
     "a_write", "a_done"}

InPass(c) == pc[c] \notin ({"idle"} \cup OutsidePcs)

\* C1: every change of a stored project's persisted status is one of
\* active->waiting_input, waiting_input->active, active->active (no change) or
\* completed->active; paused and completed are never written, and a
\* waiting_input project moves only to active. (The first save of a new id is
\* a creation, not a change.)
StatusEdges ==
    {<<"active", "waiting_input">>, <<"waiting_input", "active">>,
     <<"active", "active">>, <<"completed", "active">>}

C1_StatusEdges ==
    [][\A p \in Projects :
         \/ store[p].status = "absent"
         \/ store'[p].status = store[p].status
         \/ <<store[p].status, store'[p].status>> \in StatusEdges]_vars

\* C1, the case found: onboarding is about to save its new record under the id
\* of a stored paused project.
C1_PausedOverwritten ==
    \E c \in Ctx : /\ pc[c] = "ob_save"
                   /\ store[loc[c].pid].status = "paused"
                   /\ loc[c].st.status = "active"

\* C3: at most one flow is inside the body of dispatchCycle, cycleRunning says
\* whether one is, and a call that finds a pass in flight returns at once: it
\* changes neither the store nor the guard and enters no part of the body.
C3_OnePass ==
    /\ Cardinality({c \in Ctx : InPass(c)}) <= 1
    /\ cycleRunning <=> (\E c \in Ctx : InPass(c))

C3_SkipIsInert ==
    \A c \in Ctx :
        (cycleRunning /\ ~InPass(c) /\ loc'[c].last = "skipped" /\ loc[c] # loc'[c])
            => /\ pc'[c] = "idle"
               /\ store' = store
               /\ cycleRunning' = cycleRunning
               /\ onGregReply' = onGregReply

C3_NoOverlap == [](C3_OnePass) /\ [][C3_SkipIsInert]_vars

\* C3, the case: the router's call was skipped while the timer's pass is in flight.
C3_Skipped ==
    /\ pc["h1"] = "idle"
    /\ loc["h1"].last = "skipped"
    /\ InPass("timer")

\* C2: one reviewLoop call makes at most SAFETY_CAP Review Agent calls and at
\* most SAFETY_CAP executeRevision calls, and once it has returned either the
\* outcome was approved (processProject has pushed its TaskRecord) or 'waiting'
\* was returned with the status waiting_input persisted.
ReviewPcs == {"rl_review", "rl_revise", "rl_wait_save"}

C2_Returned(c) == loc[c].nReview > 0 /\ pc[c] \notin ReviewPcs

C2_ReviewLoopBounded ==
    \A c \in Ctx :
        /\ loc[c].nReview <= SAFETY_CAP
        /\ loc[c].nRevision <= SAFETY_CAP
        /\ C2_Returned(c) =>
             \/ /\ loc[c].why = "none"
                /\ loc[c].nPush > 0
                /\ Len(loc[c].st.completed) > 0
                /\ loc[c].st.completed[Len(loc[c].st.completed)].commitHash = loc[c].reviewed
             \/ /\ loc[c].why \in {"ask_greg", "revision_failed", "cap"}
                /\ pc[c] = "dc_next"
                /\ loc[c].last = "waiting"
                /\ store[loc[c].pid].status = "waiting_input"

\* C2, the case: the loop ran to the safety cap and escalated.
C2_CapHit ==
    \E c \in Ctx : /\ C2_Returned(c)
                   /\ loc[c].why = "cap"
                   /\ loc[c].nReview = SAFETY_CAP
                   /\ loc[c].nRevision = SAFETY_CAP

\* C4: two in-flight operations never hold the same project's record between
\* their load and their save of it (a pass from processProject's loadProject
\* to its last saveProject, the router from its load to its save).
HoldPcs ==
    {"pp_iter", "pp_decide", "pp_dir_save", "pp_esc_save", "pp_mark_save", "pp_exec",
     "pp_ask_save", "pp_failed_save", "rl_review", "rl_revise", "rl_wait_save",
     "pp_task_save", "h_resume_save", "h_dir_save"}

Holds(c, p) == pc[c] \in HoldPcs /\ loc[c].pid = p

C4_NoSharedRecord ==
    \A p \in Projects : \A c, d \in Ctx : (Holds(c, p) /\ Holds(d, p)) => c = d

\* C4, the case found: a pass is about to save its copy of a record over a
\* direction the router persisted after the pass had loaded the record.
C4_DirectionOverwritten ==
    \E c \in Timers :
        /\ pc[c] \in {"pp_esc_save", "pp_mark_save", "pp_task_save"}
        /\ loc[c].st.gregDirection = NullDir
        /\ store[loc[c].pid].gregDirection.text # 0

\* C5: in every persisted record inProgress is set only while the status is
\* active and a flow is executing that task (from the execution call to the
\* save that ends the task); once processing of the project has ended, however
\* it ended, the persisted inProgress is null.
TaskPcs ==
    {"pp_exec", "rl_review", "rl_revise", "rl_wait_save", "pp_task_save",
     "pp_ask_save", "pp_failed_save"}

C5_InProgressWhileExecuting ==
    \A p \in Projects :
        store[p].inProgress =>
            /\ store[p].status = "active"
            /\ \E c \in Ctx : loc[c].pid = p /\ pc[c] \in TaskPcs

\* C5, the case found: processProject ended in the per-project catch after the
\* execution call threw, and the record still says a task is in progress.
C5_LeftInProgress ==
    \E c \in Ctx : /\ pc[c] = "dc_next"
                   /\ loc[c].last = "threw"
                   /\ loc[c].nExec = 1
                   /\ store[loc[c].pid].inProgress

\* C6: an exception raised while one project is processed is caught at the
\* per-project boundary and reported with the project id; the pass stays in
\* flight, goes on with the next project of its list, and ends only when the
\* list is exhausted.
ProcessPcs == HoldPcs \ {"h_resume_save", "h_dir_save"}

C6_Caught(c) ==
    (pc[c] = "dc_catch" /\ pc'[c] # "dc_catch")
        => /\ pc'[c] = "dc_next"
           /\ cycleRunning'
           /\ loc'[c].projects = loc[c].projects
           /\ loc'[c].idx = loc[c].idx
           /\ loc'[c].nErr = loc[c].nErr + 1
           /\ loc'[c].errs = loc[c].errs \cup {loc[c].pid}

C6_LoopGoesOn(c) ==
    (pc[c] = "dc_next" /\ pc'[c] # "dc_next")
        => IF loc[c].idx < Len(loc[c].projects)
           THEN /\ pc'[c] = "pp_load"
                /\ loc'[c].pid = loc[c].projects[loc[c].idx + 1]
                /\ loc'[c].errs = loc[c].errs
                /\ cycleRunning'
           ELSE pc'[c] = "idle" /\ ~cycleRunning'

C6_CatchIsolates == [][\A c \in Ctx : C6_Caught(c) /\ C6_LoopGoesOn(c)]_vars

\* C6, the case: a project is being processed after an earlier project of the
\* same pass threw.
C6_NextProcessed ==
    \E c \in Ctx : /\ pc[c] \in ProcessPcs
                   /\ loc[c].errs # {}
                   /\ loc[c].pid \notin loc[c].errs

\* C7: while a pass has an agent call in flight for a project (Decision,
\* Execution, Review or revision), the project's persisted status is neither
\* paused nor waiting_input.
AgentPcs == {"pp_decide", "pp_exec", "rl_review", "rl_revise"}

C7_OnlyActiveAdvanced ==
    \A c \in Ctx :
        pc[c] \in AgentPcs => store[loc[c].pid].status \notin {"paused", "waiting_input"}

\* C7, the case found: a pass that loaded the project as active is about to
\* save its copy over a record that a stale save of the router has meanwhile
\* put back to waiting_input.
C7_WaitingOverwritten ==
    \E c \in Ctx : /\ pc[c] \in {"pp_mark_save", "pp_esc_save", "pp_dir_save"}
                   /\ loc[c].nDec = 1
                   /\ loc[c].st.status = "active"
                   /\ store[loc[c].pid].status = "waiting_input"

\* C8: a Decision with needsGreg or low confidence leads to no execution and no
\* review: the flow only asks the human, persists waiting_input and returns.
C8_Escalating(c) == loc[c].dec.needsGreg \/ loc[c].dec.confidence = "low"

C8_NoWork ==
    \A c \in Ctx :
        C8_Escalating(c)
            => /\ pc[c] \in {"pp_dir_save", "pp_esc_save", "dc_next"}
               /\ pc[c] # "pp_dir_save" => loc[c].nAsk >= 1
               /\ pc[c] = "dc_next" => loc[c].last = "waiting"

C8_Persisted(c) ==
    (pc[c] = "pp_esc_save" /\ pc'[c] # "pp_esc_save")
        => /\ pc'[c] = "dc_next"
           /\ store'[loc[c].pid].status = "waiting_input"
           /\ loc'[c].nExec = loc[c].nExec
           /\ loc'[c].nReview = loc[c].nReview

C8_EscalationStops == [](C8_NoWork) /\ [][\A c \in Ctx : C8_Persisted(c)]_vars

\* C8, the case: scenario B, a low confidence without needsGreg.
C8_LowConfidence ==
    \E c \in Ctx : /\ pc[c] = "dc_next"
                   /\ loc[c].dec.confidence = "low"
                   /\ ~loc[c].dec.needsGreg
                   /\ loc[c].nExec = 0
                   /\ loc[c].nAsk = 1
                   /\ store[loc[c].pid].status = "waiting_input"

\* C9: scenario A. Without a time budget, a Decision that does not escalate, an
\* execution with a commit and an approval by the first review end the call
\* with exactly one Decision request, one execution and one TaskRecord pushed;
\* the record is persisted with status active and inProgress null.
C9_ScenarioA(c) ==
    /\ loc[c].st.timeBudget = 0
    /\ loc[c].nReview = 1
    /\ loc[c].rev = 0
    /\ loc[c].nPush > 0

C9_OneTask ==
    \A c \in Ctx :
        (C9_ScenarioA(c) /\ pc[c] \in {"pp_task_save", "dc_next"})
            => /\ loc[c].nDec = 1
               /\ loc[c].nExec = 1
               /\ loc[c].nPush = 1
               /\ Len(loc[c].st.completed) = 1
               /\ loc[c].st.status = "active"
               /\ ~loc[c].st.inProgress
               /\ pc[c] = "dc_next" => /\ loc[c].last = "done"
                                       /\ store[loc[c].pid] = loc[c].st

\* C9, the case: scenario A has run on a project that allows several iterations.
C9_Done ==
    \E c \in Ctx : /\ C9_ScenarioA(c)
                   /\ pc[c] = "dc_next"
                   /\ loc[c].st.maxIterations > 1
                   /\ Len(store[loc[c].pid].completed) = 1

\* C10: the TaskRecord of an approved task records the number of revisions the
\* Review Agent asked for (at most SAFETY_CAP - 1) and the commit of the last
\* of them, which is the commit the approving review saw.
C10_Record(c) == loc[c].st.completed[Len(loc[c].st.completed)]

C10_RevisionsRecorded ==
    \A c \in Ctx :
        pc[c] = "pp_task_save"
            => /\ C10_Record(c).revisions = loc[c].nRevision
               /\ C10_Record(c).revisions = loc[c].nReview - 1
               /\ C10_Record(c).revisions <= SAFETY_CAP - 1
               /\ C10_Record(c).commitHash = head
               /\ C10_Record(c).commitHash = loc[c].reviewed

\* C10, the case: scenario C, two revisions and then the approval.
C10_TwoRevisions ==
    \E c \in Ctx : /\ pc[c] = "pp_task_save"
                   /\ loc[c].nRevision = 2
                   /\ C10_Record(c).revisions = 2
                   /\ C10_Record(c).commitHash = 3

\* C11: scenario D. After six revise verdicts in a row, each followed by a
\* revision that produced a commit, the loop stops reviewing and escalates: the
\* human is asked, reviewLoop returns 'waiting' and processProject returns; the
\* record is persisted with status waiting_input and inProgress null, and
\* completed holds no TaskRecord for any commit of this task.
C11_SixRevises(c) ==
    /\ loc[c].rev = SAFETY_CAP
    /\ loc[c].nRevision = SAFETY_CAP
    /\ loc[c].why # "revision_failed"

C11_CapEscalates ==
    \A c \in Ctx :
        C11_SixRevises(c)
            => /\ pc[c] \in {"rl_wait_save", "dc_next"}
               /\ loc[c].nReview = SAFETY_CAP
               /\ loc[c].nAsk >= 1
               /\ pc[c] = "dc_next"
                    => /\ loc[c].last = "waiting"
                       /\ store[loc[c].pid].status = "waiting_input"
                       /\ ~store[loc[c].pid].inProgress
                       /\ Len(store[loc[c].pid].completed) = loc[c].nPush
                       /\ \A i \in DOMAIN store[loc[c].pid].completed :
                            store[loc[c].pid].completed[i].commitHash < loc[c].cur - SAFETY_CAP

\* C11, the case: the seventh commit of a task went unreviewed and the call
\* has returned with the escalation persisted.
C11_Forced ==
    \E c \in Ctx : /\ C11_SixRevises(c)
                   /\ pc[c] = "dc_next"
                   /\ loc[c].cur = head
                   /\ loc[c].reviewed = head - 1
                   /\ store[loc[c].pid].status = "waiting_input"

\* C12: an approved prerequisite task consumes no iteration slot: when its
\* TaskRecord is recorded, currentIteration is back at the value the loop head
\* found when this iteration began, and the branching block is not entered (no
\* branch, no reset of main, no IterationBranch), whatever maxIterations is.
C12_PrerequisiteApproved(c) ==
    /\ pc[c] = "rl_review"
    /\ pc'[c] = "pp_task_save"
    /\ loc[c].dec.isPrerequisite

C12_PrerequisiteIsFree ==
    [][\A c \in Ctx :
         C12_PrerequisiteApproved(c)
            => /\ loc'[c].it = loc[c].it0
               /\ loc'[c].it0 = loc[c].it0
               /\ loc'[c].nPush = loc[c].nPush + 1
               /\ loc'[c].nGit = loc[c].nGit
               /\ loc'[c].nBr = loc[c].nBr]_vars

\* C12, the case: in a timed session of three iterations the first task was a
\* prerequisite; it is recorded and the loop head is reached with the counter
\* still at 0.
C12_SlotKept ==
    \E c \in Ctx : /\ pc[c] = "pp_iter"
                   /\ loc[c].dec.isPrerequisite
                   /\ loc[c].st.maxIterations = 3
                   /\ loc[c].nPush = 1
                   /\ loc[c].it = 0
                   /\ loc[c].nBr = 0
                   /\ Len(store[loc[c].pid].completed) = 1

\* C13: the branching block is entered, and an IterationBranch recorded, only
\* for an approved non-prerequisite task of a project with maxIterations > 1
\* while more than the safety margin of time remains (and an iteration is
\* left); for a project with maxIterations = 1 it is never entered, whatever
\* the agents return.
C13_Branched(c) == loc'[c].nGit > loc[c].nGit \/ loc'[c].nBr > loc[c].nBr

C13_BranchingConditions ==
    [][\A c \in Ctx :
         C13_Branched(c)
            => /\ pc[c] = "rl_review"
               /\ pc'[c] = "pp_task_save"
               /\ loc[c].st.maxIterations > 1
               /\ ~loc[c].dec.isPrerequisite
               /\ loc'[c].rem = 2
               /\ loc[c].it < loc[c].st.maxIterations
               /\ loc'[c].nGit = loc[c].nGit + 1
               /\ loc'[c].nBr <= loc[c].nBr + 1]_vars

C13_SingleIterationNeverBranches ==
    \A c \in Ctx :
        loc[c].st.maxIterations <= 1 => loc[c].nGit = 0 /\ loc[c].nBr = 0

C13_BranchOnlyWhenIterating ==
    [](C13_SingleIterationNeverBranches) /\ C13_BranchingConditions

\* C13, the case: the first of two iterations was approved with time to spare
\* and its IterationBranch is recorded.
C13_BranchRecorded ==
    \E c \in Ctx : /\ pc[c] = "pp_task_save"
                   /\ loc[c].st.maxIterations = 2
                   /\ loc[c].st.timeBudget > 0
                   /\ ~loc[c].dec.isPrerequisite
                   /\ loc[c].it = 1
                   /\ loc[c].nBr = 1

\* C14: within one processProject call the number of Decision requests never
\* exceeds the project's maxIterations, whatever the agents return.
C14_DecisionsBounded ==
    \A c \in Ctx : loc[c].nDec <= maxIterations(loc[c].st)

\* C14, as the code has it: the iteration counter never exceeds maxIterations,
\* and every Decision request belongs to a counted iteration or to an approved
\* prerequisite task, which gives its slot back: the number of Decision
\* requests never exceeds maxIterations plus the number of approved
\* prerequisite tasks of the call.
C14_CountedIterationsBounded ==
    \A c \in Ctx :
        /\ loc[c].it <= maxIterations(loc[c].st)
        /\ loc[c].nDec <= loc[c].it + loc[c].nPre
        /\ loc[c].nDec <= maxIterations(loc[c].st) + loc[c].nPre
        /\ loc[c].nPre = 0 => loc[c].nDec <= maxIterations(loc[c].st)

\* C14, the case: a timed session with maxIterations = 1 has made its second
\* Decision request, after an approved prerequisite task.
C14_SecondDecision ==
    \E c \in Ctx : /\ loc[c].st.maxIterations = 1
                   /\ loc[c].st.timeBudget > 0
                   /\ loc[c].nDec = 2
                   /\ loc[c].nPre = 1
                   /\ loc[c].it = 1

\* C15: for a project without a time budget one processProject call makes at
\* most one Decision request and at most one executeTask call, whatever
\* maxIterations is and also when the task completed was a prerequisite; once
\* its task is saved the call is over.
C15_SingleCycle ==
    \A c \in Ctx :
        loc[c].st.timeBudget = 0
            => /\ loc[c].nDec <= 1
               /\ loc[c].nExec <= 1
               /\ loc[c].nPush <= 1
               /\ (loc[c].nPush = 1 /\ pc[c] # "pp_task_save")
                    => pc[c] = "dc_next" /\ loc[c].last = "done"

\* C15, the case: three iterations allowed, no time budget, and the one task
\* done was a prerequisite: the call has ended after it.
C15_EndedAfterPrerequisite ==
    \E c \in Ctx : /\ pc[c] = "dc_next"
                   /\ loc[c].st.timeBudget = 0
                   /\ loc[c].st.maxIterations = 3
                   /\ loc[c].dec.isPrerequisite
                   /\ loc[c].nDec = 1
                   /\ loc[c].nExec = 1
                   /\ loc[c].nPush = 1
                   /\ loc[c].it = 0

\* C16: scenario E. When onboarding succeeds, its save adds exactly one
\* ProjectState to the store, the new record has status active, and the pass
\* goes on to process exactly that project.
Stored == {p \in Projects : store[p].status # "absent"}

C16_OnboardingAddsOne ==
    [][\A c \in Ctx :
         (pc[c] = "ob_save" /\ pc'[c] # "ob_save")
            => /\ Cardinality(Stored') = Cardinality(Stored) + 1
               /\ store'[loc[c].pid].status = "active"
               /\ pc'[c] = "dc_next"
               /\ loc'[c].projects = <<loc[c].pid>>
               /\ loc'[c].idx = 0]_vars

\* C16, the case found: onboarding is about to save a record whose id is
\* already in the store, which holds one project and will still hold one.
C16_IdTaken ==
    \E c \in Ctx : /\ pc[c] = "ob_save"
                   /\ loc[c].pid \in Stored
                   /\ Cardinality(Stored) = 1
                   /\ loc[c].st.status = "active"
                   /\ loc[c].st.completed = << >>

\* C17: a project whose persisted status is completed when a pass starts is,
\* in that pass, asked about (the ask-for-next-goal message is sent and the
\* pass waits for the reply), unless its status is changed meanwhile.
C17_Asked(p) == \E c \in Ctx : pc[c] = "pp_wait" /\ loc[c].pid = p

C17_PassStarts == \E c \in Ctx : pc[c] = "dc_readdir"

C17_CompletedIsAsked ==
    \A p \in Projects :
        (C17_PassStarts /\ store[p].status = "completed")
            ~> (C17_Asked(p) \/ store[p].status # "completed")

\* C17, the case found: the store's only project is completed, and the pass,
\* having listed no active and no waiting project, is onboarding a new
\* project instead of asking for the completed project's next goal.
C17_OnboardsInstead ==
    \E c \in Ctx : /\ pc[c] = "ob_wait"
                   /\ onGregReply = c
                   /\ store[1].status = "completed"
                   /\ Stored = {1}

\* C18: the project the router resumes is a waiting project whose lastActivity
\* is the most recent among the waiting ones; with none waiting, the project
\* given the reply as its direction is the active project whose lastActivity
\* is the most recent among the active ones.
C18_MostRecent(p, status) ==
    \A q \in Projects :
        store[q].status = status => store[q].lastActivity <= store[p].lastActivity

C18_MostRecentPicked ==
    \A c \in Ctx :
        /\ pc[c] = "h_resume_load" => C18_MostRecent(loc[c].pid, "waiting_input")
        /\ pc[c] = "h_dir_load" => C18_MostRecent(loc[c].pid, "active")

\* C18, the case found: two projects are waiting, the second was active more
\* recently, and the router is about to resume the first.
C18_OlderResumed ==
    \E c \in Ctx : /\ pc[c] = "h_resume_load"
                   /\ loc[c].pid = 1
                   /\ store[1].status = "waiting_input"
                   /\ store[2].status = "waiting_input"
                   /\ store[2].lastActivity > store[1].lastActivity

\* C19: a human direction persisted on a project stays persisted until a
\* Decision request for that project has been handed it: the only step that
\* removes or replaces it is the save of the flow whose Decision saw it.
C19_DirectionReachesDecision ==
    [][\A p \in Projects :
         (/\ store[p].gregDirection.text # 0
          /\ store'[p].gregDirection.text # store[p].gregDirection.text)
            => \E c \in Ctx : /\ pc[c] = "pp_dir_save"
                              /\ loc[c].pid = p
                              /\ loc[c].seen = store[p].gregDirection.text]_vars

\* C19, the case found: the router has saved the reply as the direction of the
\* active project a pass is processing, and the pass, whose Decision request
\* was made without it, has since saved its own copy: the direction is gone.
C19_DirectionDropped ==
    \E c \in Timers, h \in Handlers :
        /\ pc[h] = "h_call"
        /\ loc[h].st.status = "active"
        /\ loc[h].st.gregDirection.text = loc[h].text
        /\ pc[c] = "pp_exec"
        /\ loc[c].pid = loc[h].pid
        /\ loc[c].nDec = 1
        /\ loc[c].seen = 0
        /\ store[loc[h].pid].gregDirection = NullDir
        /\ store[loc[h].pid].inProgress

\* C20: the persisted completed sequence of a project only grows: every step
\* leaves it as it is or extends it at its end.
C20_Extends(old, new) ==
    /\ Len(old) <= Len(new)
    /\ \A i \in 1 .. Len(old) : new[i] = old[i]

C20_AppendOnly ==
    [][\A p \in Projects : C20_Extends(store[p].completed, store'[p].completed)]_vars

\* C20, the case found: the router is about to save a copy of the record that
\* it loaded before the pass persisted a TaskRecord.
C20_StaleCopy ==
    \E h \in Handlers :
        /\ pc[h] \in {"h_dir_save", "h_resume_save"}
        /\ Len(loc[h].st.completed) < Len(store[loc[h].pid].completed)

\* C21: when every attempt of a review has failed, the step that ends the call
\* approves the commit under review: its TaskRecord is appended, the project
\* stays active with no task in progress, nobody is asked and no error is
\* reported, and the record goes on to be saved.
C21_AutoApproves ==
    [][\A c \in Ctx :
         (pc[c] = "rl_review" /\ loc'[c].fails = MaxAttempts) =>
            /\ pc'[c] = "pp_task_save"
            /\ Len(loc'[c].st.completed) = Len(loc[c].st.completed) + 1
            /\ loc'[c].st.completed[Len(loc'[c].st.completed)].commitHash = loc[c].cur
            /\ loc'[c].st.status = loc[c].st.status
            /\ loc'[c].st.status # "waiting_input"
            /\ ~loc'[c].st.inProgress
            /\ loc'[c].nAsk = loc[c].nAsk
            /\ loc'[c].nErr = loc[c].nErr]_vars

\* C21, the case: three attempts of the review failed, and the task's record
\* has been persisted as approved.
C21_FailedReviewApproved ==
    \E c \in Ctx :
        /\ loc[c].fails = MaxAttempts
        /\ loc[c].nReview > 0
        /\ pc[c] = "dc_next"
        /\ loc[c].last = "done"
        /\ loc[c].st.status = "active"
        /\ store[loc[c].pid] # Absent
        /\ Len(store[loc[c].pid].completed) > 0
        /\ store[loc[c].pid].completed[Len(store[loc[c].pid].completed)].commitHash
              = loc[c].reviewed

\* C22: a failure of an agent call (decision, task execution, revision
\* execution, goal parsing) comes to the surface only once three attempts of
\* that call have failed, and no call has more than three failed attempts.
C22_Surfaces(c) ==
    \/ pc[c] \in {"pp_decide", "pp_exec", "pp_goal_parse"} /\ pc'[c] = "dc_catch"
    \/ pc[c] = "ob_parse" /\ pc'[c] = "dc_abort"
    \/ pc[c] = "pp_exec" /\ pc'[c] = "pp_failed_save"
    \/ pc[c] = "rl_revise" /\ pc'[c] = "rl_wait_save"

C22_SurfacedAfterThree ==
    [][\A c \in Ctx :
         /\ loc'[c].fails <= MaxAttempts
         /\ C22_Surfaces(c) => loc'[c].fails = MaxAttempts]_vars

\* C22, the case found: the revision's only run of the execution agent was
\* rejected, and the task is already on its way to the human.
C22_RevisionTriedOnce ==
    \E c \in Ctx :
        /\ pc[c] = "rl_wait_save"
        /\ loc[c].why = "revision_failed"
        /\ loc[c].nRevision = 1
        /\ loc[c].fails = 1

\* C23: a step of a pass that sets a project's status to waiting_input follows
\* a question sent to the human for that project in the same processProject
\* call; the save after a failed execution follows an error report; and the
\* catches around processProject, around onboarding and around the load of the
\* active projects report the error.
C23_SetsWaiting(c) ==
    /\ pc[c] \in ProcessPcs
    /\ loc[c].st.status # "waiting_input"
    /\ loc'[c].st.status = "waiting_input"

C23_Notified ==
    [][\A c \in Ctx :
         /\ C23_SetsWaiting(c) => loc[c].nAsk >= 1 /\ loc'[c].nAsk = loc[c].nAsk
         /\ pc[c] = "pp_failed_save" => loc[c].nErr >= 1
         /\ (pc[c] = "dc_catch" /\ pc'[c] # "dc_catch") => loc'[c].nErr = loc[c].nErr + 1
         /\ pc[c] \in {"dc_abort", "dc_load_failed"} => loc[c].nErr >= 1]_vars

\* C23, the case: a pass has persisted waiting_input for the project it was
\* processing, after one question to the human.
C23_WaitingAfterQuestion ==
    \E c \in Ctx :
        /\ pc[c] = "dc_next"
        /\ loc[c].last = "waiting"
        /\ loc[c].nAsk = 1
        /\ loc[c].nErr = 0
        /\ store[loc[c].pid].status = "waiting_input"

\* C24: a pass that has set the in-flight guard clears it when it ends, by
\* whatever path it ends, and every pass ends: whenever the guard is set it is
\* later clear, so that a later tick starts a new pass.
C24_EndClears ==
    [][\A c \in Ctx : (InPass(c) /\ pc'[c] = "idle") => ~cycleRunning']_vars

C24_GuardCleared == C24_EndClears /\ (cycleRunning ~> ~cycleRunning)

\* C24, the case: the timer's pass is over and a later pass, started by the
\* router, has set the guard again.
C24_NewPassAfterOld ==
    \E c \in Timers, h \in Handlers :
        /\ pc[c] = "idle"
        /\ nTick = 1
        /\ pc[h] = "dc_readdir"
        /\ cycleRunning

\* C25: an execution result that is completed without a commit, or that needs
\* input, takes the branch that asks the human; on that branch the question
\* has been sent and no review was requested, and its save persists
\* waiting_input with no task in progress and the completed sequence as it was,
\* and ends processProject with no further agent call.
C25_AskBranch ==
    \A e \in ExecutionResults :
        ((e.status = "completed" /\ ~e.commit) \/ e.status = "needs_input")
            => outcome(e) = "ask"

C25_Branches(c) ==
    (pc[c] = "pp_exec" /\ pc'[c] = "pp_ask_save") =>
        /\ loc'[c].nAsk = loc[c].nAsk + 1
        /\ loc'[c].nReview = loc[c].nReview
        /\ loc'[c].st = loc[c].st

C25_Asked(c) ==
    pc[c] = "pp_ask_save" =>
        /\ outcome(executeTask(loc[c].repo)) = "ask"
        /\ loc[c].nAsk = 1
        /\ store'[loc[c].pid].status = "waiting_input"
        /\ ~store'[loc[c].pid].inProgress
        /\ store'[loc[c].pid].completed = store[loc[c].pid].completed
        /\ pc'[c] = "dc_next"
        /\ loc'[c].last = "waiting"
        /\ loc'[c].nDec = loc[c].nDec
        /\ loc'[c].nExec = loc[c].nExec
        /\ loc'[c].nReview = loc[c].nReview

C25_EscalatesToHuman ==
    C25_AskBranch /\ [][\A c \in Ctx : C25_Branches(c) /\ C25_Asked(c)]_vars

\* C25, the case: the execution left uncommitted changes, and the project has
\* been persisted as waiting for the human.
C25_WaitingForInput ==
    \E c \in Ctx :
        /\ pc[c] = "dc_next"
        /\ loc[c].last = "waiting"
        /\ loc[c].repo = "dirty"
        /\ loc[c].nExec = 1
        /\ loc[c].nReview = 0
        /\ store[loc[c].pid].status = "waiting_input"
        /\ ~store[loc[c].pid].inProgress

\* C26: a failed execution result takes the branch that reports the error; its
\* save persists the record with no task in progress, the status and the
\* completed sequence as they were, and ends processProject: no Decision and
\* no Execution request follows in that call.
C26_FailedBranch ==
    \A e \in ExecutionResults : e.status = "failed" => outcome(e) = "failed"

C26_Branches(c) ==
    (pc[c] = "pp_exec" /\ pc'[c] = "pp_failed_save") =>
        /\ loc'[c].nErr = loc[c].nErr + 1
        /\ loc'[c].nAsk = loc[c].nAsk
        /\ loc'[c].st = loc[c].st

C26_Saved(c) ==
    pc[c] = "pp_failed_save" =>
        /\ outcome(executeTask(loc[c].repo)) = "failed"
        /\ loc[c].nErr = 1
        /\ store[loc[c].pid].inProgress
        /\ ~store'[loc[c].pid].inProgress
        /\ store'[loc[c].pid].status = "active"
        /\ store'[loc[c].pid].status = store[loc[c].pid].status
        /\ store'[loc[c].pid].completed = store[loc[c].pid].completed
        /\ pc'[c] = "dc_next"
        /\ loc'[c].last = "failed"
        /\ loc'[c].nDec = loc[c].nDec
        /\ loc'[c].nExec = loc[c].nExec

C26_FailureEndsCall ==
    C26_FailedBranch /\ [][\A c \in Ctx : C26_Branches(c) /\ C26_Saved(c)]_vars

\* C26, the case: the execution's result could not be inspected, the error was
\* reported, and the project is persisted active with nothing in progress.
C26_FailureReported ==
    \E c \in Ctx :
        /\ pc[c] = "dc_next"
        /\ loc[c].last = "failed"
        /\ loc[c].repo = "unreadable"
        /\ loc[c].nErr = 1
        /\ store[loc[c].pid].status = "active"
        /\ ~store[loc[c].pid].inProgress

\* C27: when the execution agent has run and the repository is as it was, that
\* attempt is executeTask's last: the call returns, the human is asked a
\* question, no error is reported and no review is requested; the save that
\* follows persists waiting_input and ends processProject.
C27_Returns(c) ==
    (pc[c] = "pp_exec" /\ loc'[c].repo = "clean") =>
        /\ pc'[c] = "pp_ask_save"
        /\ loc'[c].nExec = loc[c].nExec + 1
        /\ loc'[c].nAsk = loc[c].nAsk + 1
        /\ loc'[c].nErr = loc[c].nErr
        /\ loc'[c].nReview = loc[c].nReview

C27_Waits(c) ==
    (pc[c] = "pp_ask_save" /\ loc[c].repo = "clean") =>
        /\ store'[loc[c].pid].status = "waiting_input"
        /\ ~store'[loc[c].pid].inProgress
        /\ pc'[c] = "dc_next"
        /\ loc'[c].last = "waiting"
        /\ loc'[c].nExec = loc[c].nExec

C27_NoChangesAsksHuman == [][\A c \in Ctx : C27_Returns(c) /\ C27_Waits(c)]_vars

\* C27, the case: the agent ran and changed nothing, no error was reported, and the
\* project has been persisted as waiting for the human.
C27_UnchangedRepoWaits ==
    \E c \in Ctx :
        /\ pc[c] = "dc_next"
        /\ loc[c].last = "waiting"
        /\ loc[c].repo = "clean"
        /\ loc[c].nExec = 1
        /\ loc[c].nAsk = 1
        /\ store[loc[c].pid].status = "waiting_input"

\* C28: once the progress notification of an approved task has been sent, the
\* persisted record holds the task's TaskRecord, with inProgress cleared and
\* lastActivity updated: what the pass holds in memory is what is stored.
C28_PersistedBeforeNotified ==
    \A c \in Ctx :
        loc[c].nProgress > 0 =>
            /\ store[loc[c].pid].completed = loc[c].st.completed
            /\ store[loc[c].pid].inProgress = loc[c].st.inProgress
            /\ store[loc[c].pid].lastActivity = loc[c].st.lastActivity

\* C28, the case found: the progress notification of the first approved task
\* is out, and the stored record still shows the task in progress and no
\* TaskRecord.
C28_NotifiedUnsaved ==
    \E c \in Ctx :
        /\ pc[c] = "pp_task_save"
        /\ loc[c].nProgress = 1
        /\ Len(loc[c].st.completed) = 1
        /\ store[loc[c].pid].completed = << >>
        /\ store[loc[c].pid].inProgress

\* C29: when processProject ends a session, a session summary has been sent if
\* more than one IterationBranch was recorded, and none has been sent otherwise.
C29_Ends(c) == pc[c] \in ProcessPcs /\ pc'[c] = "dc_next"

C29_SummaryAtEnd ==
    [][\A c \in Ctx :
         C29_Ends(c) => (loc'[c].nSummary = IF loc'[c].nBr > 1 THEN 1 ELSE 0)]_vars

\* C29, the case found: two iterations were branched, the third execution
\* failed, and processProject has returned without a summary.
C29_BranchesUnsummarised ==
    \E c \in Ctx :
        /\ pc[c] = "dc_next"
        /\ loc[c].last = "failed"
        /\ loc[c].nBr = 2
        /\ loc[c].nSummary = 0

\* C30: a pass that lists the projects changes no record, calls no agent and
\* sends no message while it does so; once its look for waiting projects has
\* found one, the pass goes on listing or ends with the guard cleared, and
\* onboarding is only ever entered with no waiting project found.
C30_Moves(c) == pc'[c] # pc[c] \/ loc'[c] # loc[c]

C30_Listing(c) ==
    (pc[c] \in {"dc_readdir", "dc_load", "dc_readdir_w", "dc_load_w"} /\ C30_Moves(c)) =>
        /\ store' = store
        /\ head' = head
        /\ nTask' = nTask
        /\ onGregReply' = onGregReply
        /\ loc'[c].nDec = 0 /\ loc'[c].nExec = 0 /\ loc'[c].nReview = 0
        /\ loc'[c].nAsk = 0 /\ loc'[c].nProgress = 0 /\ loc'[c].nSummary = 0
        /\ pc[c] \in {"dc_readdir_w", "dc_load_w"} => loc'[c].nErr = 0

C30_FoundWaiting(c) ==
    /\ pc[c] = "dc_load_w"
    /\ \/ Len(loc[c].acc) > 0
       \/ store[loc[c].ids[loc[c].scan]].status = "waiting_input"

C30_Ends(c) ==
    (C30_FoundWaiting(c) /\ C30_Moves(c)) =>
        \/ pc'[c] = "dc_load_w"
        \/ pc'[c] = "idle" /\ ~cycleRunning'

C30_WaitingOnlyPass ==
    [][\A c \in Ctx :
         /\ C30_Listing(c)
         /\ C30_Ends(c)
         /\ pc'[c] = "ob_ask" => loc'[c].acc = << >>]_vars

\* C30, the case: the pass found no active project, its look for waiting
\* projects has found the first project waiting, and nothing has changed.
C30_WaitingFound ==
    \E c \in Timers :
        /\ pc[c] = "dc_load_w"
        /\ loc[c].acc = <<1>>
        /\ loc[c].projects = << >>
        /\ store[1].status = "waiting_input"
        /\ head = 0
        /\ onGregReply = "none"

\* C31: when onboarding's wait for the human times out, the step clears the
\* pending-wait slot, reports one error and changes no record; the step that
\* follows ends the pass with the guard released, no record changed and no
\* project processed.
C31_TimesOut(c) ==
    (pc[c] \in {"ob_wait", "ob_taken"} /\ pc'[c] = "dc_abort") =>
        /\ onGregReply' = "none"
        /\ store' = store
        /\ loc'[c].nErr = loc[c].nErr + 1
        /\ cycleRunning'

C31_Aborts(c) ==
    (pc[c] = "dc_abort" /\ pc'[c] # "dc_abort") =>
        /\ pc'[c] = "idle"
        /\ ~cycleRunning'
        /\ store' = store
        /\ loc[c].nErr = 1
        /\ loc[c].projects = << >>
        /\ loc[c].nDec = 0 /\ loc[c].nExec = 0

C31_OnboardingTimeout == [][\A c \in Ctx : C31_TimesOut(c) /\ C31_Aborts(c)]_vars

\* C31, the case: no reply came, the wait has timed out, the error is
\* reported and the pass is about to end over a store that holds a project.
C31_TimedOut ==
    \E c \in Ctx :
        /\ pc[c] = "dc_abort"
        /\ loc[c].text = 0
        /\ loc[c].fails = 0
        /\ loc[c].nErr = 1
        /\ onGregReply = "none"
        /\ store[1].status = "paused"

\* C32: at most one flow waits for a human reply at any time, and the slot
\* names that flow until a message takes its callback; a message that arrives
\* goes to the pending wait, with the slot cleared and no handler started, or,
\* with no wait pending, to one new invocation of the router; and a wait whose
\* callback a message has taken ends with that message as its reply.
WaitPcs == {"ob_wait", "pp_wait"}

TakenPcs == {"ob_taken", "pp_taken"}

C32_Waiting == {c \in Ctx : pc[c] \in WaitPcs \cup TakenPcs}

C32_OneWait ==
    /\ Cardinality(C32_Waiting) <= 1
    /\ \A c \in Ctx : (onGregReply = c) <=> (pc[c] \in WaitPcs)

C32_Started == {h \in Ctx : pc[h] # "h_readdir_w" /\ pc'[h] = "h_readdir_w"}

C32_Arrives ==
    (nMsg' = nMsg + 1) =>
        IF onGregReply # "none"
        THEN /\ onGregReply' = "none"
             /\ pc'[onGregReply] \in TakenPcs
             /\ loc'[onGregReply].text = nMsg'
             /\ C32_Started = {}
        ELSE /\ Cardinality(C32_Started) = 1
             /\ \A h \in C32_Started : loc'[h].text = nMsg'
             /\ onGregReply' = "none"

C32_Resolves(c) ==
    (pc[c] \in TakenPcs /\ pc'[c] # pc[c]) =>
        /\ pc'[c] \in {"ob_parse", "pp_goal_parse"}
        /\ loc'[c].text = loc[c].text

C32_SingleConsumer ==
    []C32_OneWait /\ [][C32_Arrives /\ \A c \in Ctx : C32_Resolves(c)]_vars

\* C32, the case found: the message took the callback of onboarding's wait,
\* the wait timed out before the callback was called, and the pass is ending
\* with the error reported: the message reached neither the wait nor the router.
C32_MessageDropped ==
    \E c \in Ctx :
        /\ pc[c] = "dc_abort"
        /\ loc[c].text = 1
        /\ loc[c].fails = 0
        /\ nMsg = 1
        /\ \A h \in Handlers : pc[h] = "idle"

\* C33: a human direction is consumed once. The Decision request that returns
\* with it clears it in memory and saves the record before the question to the
\* human or the execution; from that save on the direction is in no stored
\* record and in no copy that will be read or saved again (the router keeps one
\* until it returns), and no router invocation is still to write it,
\* so no later Decision request can be handed it; a direction enters a record
\* only by the save of the router invocation that received it; and the step in
\* which the Decision request fails for good leaves the store as it is, with a
\* direction still in the stored record if the request was handed one (the one
\* handed, or the one a later message has put in its place).
C33_Consumes(c) ==
    (pc[c] = "pp_decide" /\ loc'[c].nDec = loc[c].nDec + 1 /\ pc'[c] # "dc_catch"
       /\ loc[c].st.gregDirection.text # 0) =>
        /\ pc'[c] = "pp_dir_save"
        /\ loc'[c].seen = loc[c].st.gregDirection.text
        /\ loc'[c].st.gregDirection = NullDir
        /\ loc'[c].nAsk = loc[c].nAsk /\ loc'[c].nExec = loc[c].nExec

C33_Persists(c) ==
    (pc[c] = "pp_dir_save" /\ pc'[c] # "pp_dir_save") =>
        /\ store'[loc[c].pid].gregDirection = NullDir
        /\ pc'[c] \in {"pp_esc_save", "pp_mark_save"}
        /\ loc'[c].nExec = loc[c].nExec

C33_Fails(c) ==
    (pc[c] = "pp_decide" /\ pc'[c] = "dc_catch") =>
        /\ store' = store
        /\ loc[c].st.gregDirection.text # 0 => store[loc[c].pid].gregDirection.text # 0

C33_Enters(p) ==
    (/\ store'[p].gregDirection.text # 0
     /\ store'[p].gregDirection.text # store[p].gregDirection.text) =>
        \E h \in Handlers : /\ pc[h] \in {"h_dir_save", "h_resume_save"}
                            /\ loc[h].pid = p
                            /\ loc[h].text = store'[p].gregDirection.text

C33_ToWrite(t) ==
    \E h \in Handlers :
        /\ loc[h].text = t
        /\ pc[h] \in {"h_readdir_w", "h_load_w", "h_readdir_a", "h_load_a",
                      "h_resume_load", "h_resume_save", "h_dir_load", "h_dir_save"}

C33_Gone ==
    \A c \in Ctx :
        (loc[c].seen # 0 /\ pc[c] # "pp_dir_save") =>
            /\ loc[c].st.gregDirection.text = 0
            /\ \A p \in Projects : store[p].gregDirection.text # loc[c].seen
            /\ \A d \in Ctx : pc[d] = "h_call" \/ loc[d].st.gregDirection.text # loc[c].seen
            /\ ~C33_ToWrite(loc[c].seen)

C33_ConsumedOnce ==
    /\ []C33_Gone
    /\ [][/\ \A c \in Ctx : C33_Consumes(c) /\ C33_Persists(c) /\ C33_Fails(c)
          /\ \A p \in Projects : C33_Enters(p)]_vars

\* C33, the case: the router resumed a waiting project with the reply, the pass
\* it started handed the reply to a Decision request that asked for the human,
\* and the record is about to be saved as waiting with no direction in it.
C33_DirectionConsumed ==
    \E c \in Ctx :
        /\ pc[c] = "pp_esc_save"
        /\ loc[c].seen = 1
        /\ loc[c].nAsk = 1
        /\ loc[c].st.gregDirection = NullDir
        /\ store[loc[c].pid].gregDirection = NullDir
        /\ store[loc[c].pid].status = "active"

\* C34: once the router is saving a waiting project as resumed with the reply,
\* a Decision request for that project follows with the reply in hand, with
\* no further tick of the timer needed.
C34_Resuming(p) == \E h \in Handlers : pc[h] = "h_resume_save" /\ loc[h].pid = p

C34_Deciding(p) ==
    \E c \in Ctx : /\ pc[c] = "pp_decide"
                   /\ loc[c].pid = p
                   /\ loc[c].st.gregDirection.text # 0

C34_ResumedIsProcessed == \A p \in Projects : C34_Resuming(p) ~> C34_Deciding(p)

\* C34, the case found: the reply came while the timer's pass was in flight,
\* past its listing of the active projects; the router has resumed the project
\* and its call of dispatchCycle has returned at the guard: the project is
\* active with the reply in it, and the only pass running will not load it.
C34_ResumedUnprocessed ==
    \E h \in Handlers, c \in Timers :
        /\ pc[h] = "idle"
        /\ loc[h].last = "skipped"
        /\ pc[c] \in {"dc_readdir_w", "dc_load_w"}
        /\ cycleRunning
        /\ nTick = 1 /\ nMsg = 1
        /\ store[1].status = "active"
        /\ store[1].gregDirection.text = 1

\* C35: the step in which reviewLoop returns an approved outcome is a review
\* call on the current commit, and the TaskRecord it appends carries that
\* commit; the save that follows persists it; and a commit made by a revision
\* becomes the current one, so a task approved after a revision records the
\* revision's commit.
C35_Approves(c) ==
    (pc[c] = "rl_review" /\ pc'[c] = "pp_task_save") =>
        /\ loc'[c].nReview = loc[c].nReview + 1
        /\ loc'[c].reviewed = loc[c].cur
        /\ loc'[c].cur = loc[c].cur
        /\ Len(loc'[c].st.completed) = Len(loc[c].st.completed) + 1
        /\ loc'[c].st.completed[Len(loc'[c].st.completed)].commitHash = loc[c].cur

C35_Saves(c) ==
    (pc[c] = "pp_task_save" /\ pc'[c] # "pp_task_save") =>
        /\ store'[loc[c].pid].completed = loc[c].st.completed
        /\ store'[loc[c].pid].completed[Len(loc[c].st.completed)].commitHash = loc[c].reviewed

C35_Revises(c) ==
    (pc[c] = "rl_revise" /\ head' # head) =>
        /\ head' = head + 1
        /\ loc'[c].cur = head'
        /\ loc'[c].reviewed = loc[c].reviewed
        /\ loc'[c].reviewed < head'
        /\ loc'[c].st.completed = loc[c].st.completed

C35_ApprovedIsReviewed ==
    [][\A c \in Ctx : C35_Approves(c) /\ C35_Saves(c) /\ C35_Revises(c)]_vars

\* C35, the case: a task approved after one revision; the record carries the
\* revision's commit, which the second review call saw.
C35_RevisionApproved ==
    \E c \in Ctx :
        /\ pc[c] = "pp_task_save"
        /\ loc[c].rev = 1
        /\ loc[c].nReview = 2
        /\ loc[c].reviewed = 2
        /\ loc[c].st.completed[Len(loc[c].st.completed)].commitHash = 2

\* C39: when reviewLoop is about to return, by its approval or by one of its
\* escalations, the current commit is the one the last review call was given:
\* no commit of a revision is left unreviewed.
C39_RevisionsReviewed ==
    \A c \in Ctx :
        pc[c] \in {"rl_wait_save", "pp_task_save"} => loc[c].reviewed = loc[c].cur

\* C39, the case found: the sixth revise verdict was followed by a revision
\* that committed; the loop's condition then fails and the human is asked to
\* accept commit 7, while the last review call saw commit 6.
C39_UnreviewedAtCap ==
    \E c \in Ctx :
        /\ pc[c] = "rl_wait_save"
        /\ loc[c].why = "cap"
        /\ loc[c].nRevision = SAFETY_CAP
        /\ loc[c].nReview = SAFETY_CAP
        /\ loc[c].nAsk = 1
        /\ loc[c].cur = SAFETY_CAP + 1
        /\ loc[c].reviewed = SAFETY_CAP

\* C36: a session records at most maxIterations - 1 iteration branches; the
\* approval of the task whose iteration counter equals maxIterations does not
\* enter the branching block (no branch, no reset); and a session that sent a
\* summary has maxIterations >= 3.
C36_Bounded ==
    \A c \in Ctx :
        /\ loc[c].nBr <= maxIterations(loc[c].st) - 1
        /\ loc[c].nSummary > 0 => maxIterations(loc[c].st) >= 3

C36_LastStays(c) ==
    (pc[c] = "rl_review" /\ pc'[c] = "pp_task_save"
       /\ loc[c].it = maxIterations(loc[c].st)) =>
        /\ loc'[c].nBr = loc[c].nBr
        /\ loc'[c].nGit = loc[c].nGit
        /\ loc'[c].nPush = loc[c].nPush + 1

C36_BranchesBounded == []C36_Bounded /\ [][\A c \in Ctx : C36_LastStays(c)]_vars

\* C36, the case: maxIterations = 3 with time left; the third task is approved
\* in iteration 3 after two branches, and is not branched.
C36_ThirdOnMain ==
    \E c \in Ctx :
        /\ pc[c] = "pp_task_save"
        /\ maxIterations(loc[c].st) = 3
        /\ loc[c].it = 3
        /\ loc[c].nBr = 2
        /\ loc[c].nGit = 2
        /\ loc[c].nPush = 3

\* C37: a session that has just branched an approved task and reset the
\* primary line (the task was not a prerequisite, the branching condition held
\* and no git step of the session has failed) goes on: its save is followed by
\* the loop head, and the loop head by a Decision request.
C37_Branched(l) ==
    /\ l.nPush > 0
    /\ ~l.dec.isPrerequisite
    /\ maxIterations(l.st) > 1 /\ l.it < maxIterations(l.st) /\ l.rem > 1
    /\ l.nBr = l.nGit

C37_GoesOn(c) ==
    (pc[c] \in {"pp_task_save", "pp_iter"} /\ C37_Branched(loc[c]) /\ pc'[c] # pc[c]) =>
        pc'[c] \in {"pp_iter", "pp_decide"}

C37_BranchedGoesOn == [][\A c \in Ctx : C37_GoesOn(c)]_vars

\* C37, the case found: no time budget and maxIterations > 1; the session's
\* only task was approved, branched as iteration-1 with the primary line reset,
\* and the session has ended at the single-cycle break after one Decision.
C37_ResetThenEnded ==
    \E c \in Ctx :
        /\ pc[c] = "dc_next"
        /\ loc[c].last = "done"
        /\ loc[c].st.timeBudget = 0
        /\ maxIterations(loc[c].st) > 1
        /\ loc[c].nDec = 1
        /\ loc[c].nPush = 1
        /\ loc[c].nBr = 1
        /\ store[loc[c].pid].completed = loc[c].st.completed

\* C38: from a state in which a pass has sent its escalation question for a
\* project and has yet to save it as waiting, with no human message received so
\* far, the reply that follows is never discarded: once the router's handler
\* has returned and the pass has saved, the project is not waiting_input with no
\* direction and no trace of the reply (the router stamps lastActivity when it
\* stores or resumes with a reply).
C38_Asked(c, p) == pc[c] = "pp_esc_save" /\ loc[c].pid = p /\ nMsg = 0

C38_Discarded(p) ==
    /\ nMsg = 1
    /\ \A h \in Handlers : pc[h] = "idle"
    /\ \A c \in Ctx : pc[c] # "pp_esc_save"
    /\ store[p].status = "waiting_input"
    /\ store[p].gregDirection.text = 0
    /\ store[p].lastActivity = 0

C38_ReplyKept ==
    \A c \in Ctx, p \in Projects : [](C38_Asked(c, p) => [](~C38_Discarded(p)))

\* C38, the case found: the router's handler stored the reply as the direction
\* of the project, still active on disk, and returned (its pass was skipped at
\* the guard); the timer's pass has since saved its own copy as waiting_input.
C38_ReplyDiscarded ==
    \E c \in Timers, h \in Handlers :
        /\ pc[c] = "dc_next"
        /\ loc[c].last = "waiting"
        /\ loc[c].nAsk = 1
        /\ loc[c].seen = 0
        /\ pc[h] = "idle"
        /\ loc[h].last = "skipped"
        /\ C38_Discarded(loc[c].pid)

\* C40: a call of saveProject with a record that fails validation (projectId,
\* name or repoPath missing, a status outside the four, completed not a
\* sequence) throws and leaves the stored records and the backups as they
\* were; a call with a valid record writes it, keeping the record it replaces as
\* the backup; and whatever step changes a stored record, the record it writes
\* has the three strings, one of the four statuses and a sequence as completed.
C40_Valid(state) ==
    /\ state.projectId = "set" /\ state.name = "set" /\ state.repoPath = "set"
    /\ state.status \in {"active", "paused", "completed", "waiting_input"}
    /\ DOMAIN state.completed = 1 .. Cardinality(DOMAIN state.completed)

C40_Call(c) ==
    (pc[c] \in {"save_call", "ob_save"} /\ pc'[c] # pc[c]) =>
        IF C40_Valid(loc[c].st)
        THEN /\ store' = [store EXCEPT ![loc[c].pid] = loc[c].st]
             /\ pc'[c] \in {"save_done", "dc_next"}
             /\ backup'[loc[c].pid] =
                  IF store[loc[c].pid].status = "absent" THEN backup[loc[c].pid]
                  ELSE store[loc[c].pid]
        ELSE /\ store' = store
             /\ backup' = backup
             /\ pc'[c] \in {"save_threw", "dc_abort"}

C40_Written(p) == store'[p] # store[p] => C40_Valid(store'[p])

C40_InvalidNeverSaved ==
    [][(\A c \in Ctx : C40_Call(c)) /\ (\A p \in Projects : C40_Written(p))]_vars

\* C40, the case: saveProject was called with a record whose status is not one
\* of the four, over a stored record and a backup; it threw, and both are as
\* they were.
C40_Refused ==
    \E c \in Ctx :
        /\ pc[c] = "save_threw"
        /\ loc[c].st.status = "archived"
        /\ loc[c].st.name = "set"
        /\ isArray(loc[c].st.completed)
        /\ store[1].status = "paused"
        /\ backup[1].status = "active"

====
